---- MODULE Spec2Model ----
(***************************************************************************)
(* Model of jvm_mcp_server/connection_pool.py (ArthasConnectionPool) and   *)
(* of the pooled command wrapper ArthasClient._execute_command that uses   *)
(* it.  Every thread of the program is a process with a program counter;   *)
(* the pool lock is threading.Lock, which is not re-entrant.               *)
(***************************************************************************)
EXTENDS Integers, Sequences, FiniteSets, TLC

(* ---- bounds of the model ---- *)
MaxTime == 2          \* the clock stops after this many ticks
MaxSessions == 2      \* at most this many PooledConnection objects are created
MaxPoolSize == 2      \* max_size is drawn from 1..MaxPoolSize at construction
MaxCtorCalls == 3     \* at most this many construction calls are made
MaxFailed == 4        \* failed_count is drawn from 0..MaxFailed
MaxRetries == 3       \* max_retries is drawn from 0..MaxRetries
MaxChunk == 2         \* a received chunk has 1..MaxChunk characters
MaxWidth == 2         \* a character is encoded in 1..MaxWidth bytes
MaxDisconnects == 2   \* _disconnect is called from outside at most this often per client
MaxCmdLen == 3        \* words and whitespace runs of a command string
MaxClasses == 3       \* rows of the jmap histogram
MaxWorkers == 2       \* max_workers of get_class_info_parallel is 1..MaxWorkers
NumPids == 1           \* target process ids 1..NumPids

(* ---- constructor parameters (connection_pool.py:40-46), in clock ticks ---- *)
connection_timeout == 1
idle_timeout == 0
max_lifetime == 1
failure_threshold == 3     \* the literal 3 of "failed_count > 3"

(* ---- the attach handshake (arthas.py:202, 265), in clock ticks ---- *)
attach_timeout == 2

Clients == {1, 2}              \* ArthasClient objects
\* what the target's output can hold: "Can not attach to target process",
\* "ERROR", and the prompt ("as.sh" / "$")
Markers == {"denied", "error", "prompt"}

Callers == {"c1", "c2"}
HC == "hc"                 \* the thread running _health_check_loop
Main == "main"             \* the thread that calls shutdown()
Threads == Callers \cup {HC, Main}
NoThread == "none"
NoConn == 0
Pids == 1..NumPids
Constructors == {"k1", "k2"}   \* threads that construct / look up the pool
default_max_size == 5          \* connection_pool.py:41

(* ---- ArthasConfig.command_timeouts and the command strings ---- *)
\* the words a command string is made of; " " stands for a run of whitespace
Words == {"thread", "THREAD", "jad", "-n", "default"}
Space == " "
\* config.py:33-60: keys of the registry a new ArthasConfig has
DefaultKeys == {"thread", "jad", "default"}
\* the timeout of a default entry and the timeouts a loaded entry can have
default_timeout == 1
Timeouts == {1, 2}

(* ---- native/base.py: BaseCommand ---- *)
\* what get_command can return, and the values of self.timeout (0 is None)
CommandLines == {"jps -l", "jstack 1", "jmap 1"}
CommandTimeouts == 0..3

(* ---- native/tools/class_info.py: ClassInfoCoordinator ---- *)
\* class names of the histogram; "[B" is an array type
ClassNames == {"A", "B", "[B"}
\* what javap_cmd.execute does for a class: a successful result with its
\* class_info, a failed result, or an exception
JavapOutcomes == {"info", "failed", "raises"}
Absent == "absent"             \* the key structure_info is not in the dict

(* ---- the command policy (arthas.py:425-428), in clock ticks and in bytes ---- *)
timeout == 2
retry_interval == 1
max_output_size == 3

VARIABLES
    max_size,       \* self.max_size
    now,            \* time.time()
    lock,           \* owner of ArthasConnectionPool._lock, or NoThread
    sess,           \* every PooledConnection ever created, by identity
    connections,    \* self._connections : pid -> list of connections
    key_order,      \* insertion order of the keys of self._connections
    available,      \* self._available : pid -> Queue of connections
    stop,           \* self._stop_health_check
    hc_todo,        \* what is left of the sweep's iteration
    pc,             \* position of every thread
    pid,            \* get_connection's argument, per thread
    conn,           \* the local variable conn / connection, per thread
    start_time,     \* get_connection's start_time, per thread
    attach_failed   \* a _create_connection of the thread's call has raised

(* ---- ArthasConnectionPool.__new__ / __init__ and get_connection_pool ---- *)
VARIABLES
    instance,        \* ArthasConnectionPool._instance: 0 is None, else the object
    initialized,     \* hasattr(self, '_initialized') of the one pool object
    hc_threads,      \* how many _health_check_loop threads were started
    pool_max_size,   \* self.max_size of the pool object, 0 before it is set
    pool_tracked,    \* is self._connections of the pool object non-empty
    connection_pool, \* ArthasClient._connection_pool: 0 is None, else the object
    ct_pc,           \* position of every constructing thread
    ct_arg,          \* the max_size argument of the thread's call
    ct_self,         \* what __new__ returned to the thread
    ct_ret,          \* what the thread's last completed call returned
    ct_via,          \* the call came through ArthasClient.get_connection_pool
    ct_calls         \* construction calls made so far

(* ---- _is_connection_valid on its own ---- *)
VARIABLES
    v_conn,          \* the connection handed to _is_connection_valid
    v_now,           \* time.time() at the call
    v_result         \* what the call returned: "none" before it ran

(* ---- ArthasClient._execute_command_internal ---- *)
VARIABLES
    x_ssh,           \* bool(self.ssh_host)
    x_open,          \* self.arthas_channel / self.telnet is set
    x_max_retries,   \* cmd_config.max_retries
    x_retry,         \* the loop variable retry
    x_pc,            \* position in _execute_command_internal
    x_elapsed,       \* time.time() - start_time
    x_output_size,   \* the encoded size of output; output_size until the cut
    x_truncated,     \* truncated
    x_prompt,        \* a chunk with the prompt marker "$" was read
    x_sends,         \* how many times the command line was written
    x_chan_error,    \* a read raised in this call while output was accumulated
    x_result,        \* "none", "success", or the exception that was raised
    x_waited,        \* the time slept between attempts so far
    x_failed,        \* how many attempts of this call ended in an exception
    x_pending,       \* output of an earlier command on the connection: "none",
                     \* "buffered" (it has arrived) or "in_flight" (it is to come)
    x_lines          \* the kinds of lines in output, and then in result

(* ---- ArthasClient: _attach_to_process and _disconnect ---- *)
VARIABLES
    cl               \* the fields of every ArthasClient object

(* ---- ArthasConfig: the command registry and its lookup ---- *)
VARIABLES
    cfg              \* command_timeouts, the last lookup's argument and result

(* ---- native/base.py: one BaseCommand object and its execute ---- *)
VARIABLES
    bc               \* self.timeout, the position in execute, what was called

(* ---- native/tools/class_info.py: one call of get_class_info_parallel ---- *)
VARIABLES
    ci               \* the arguments, the environment, classes_info, the workers

ctorVars == <<instance, initialized, hc_threads, pool_max_size, pool_tracked,
              connection_pool, ct_pc, ct_arg, ct_self, ct_ret, ct_via, ct_calls>>
validVars == <<v_conn, v_now, v_result>>
xVars == <<x_ssh, x_open, x_max_retries, x_retry, x_pc, x_elapsed,
           x_output_size, x_truncated, x_prompt, x_sends, x_chan_error, x_result,
           x_waited, x_failed, x_pending, x_lines>>
clientVars == <<cl>>
toolVars == <<cfg, bc, ci>>
otherVars == <<ctorVars, validVars, xVars, clientVars, toolVars>>
poolState == <<max_size, now, lock, sess, connections, key_order, available,
               stop, hc_todo, pc, pid, conn, start_time, attach_failed>>

vars == <<max_size, now, lock, sess, connections, key_order, available, stop,
          hc_todo, pc, pid, conn, start_time, attach_failed, otherVars>>

poolVars == <<connections, key_order, available>>
localVars == <<pid, conn, start_time>>

(* ---- helpers on lists ---- *)
IndexOf(s, x) == CHOOSE i \in 1..Len(s) : s[i] = x /\ \A j \in 1..(i-1) : s[j] # x
InSeq(s, x) == \E i \in 1..Len(s) : s[i] = x
\* list.remove(x): drops the first occurrence
ListRemove(s, x) ==
    LET i == IndexOf(s, x) IN SubSeq(s, 1, i-1) \o SubSeq(s, i+1, Len(s))

RECURSIVE Flatten(_, _)
\* the connections of every key, in the dict's iteration order
Flatten(keys, m) ==
    IF keys = <<>> THEN <<>> ELSE m[Head(keys)] \o Flatten(Tail(keys), m)

(* ---- PooledConnection ---- *)
PooledConnection(p, t) ==
    [pid |-> p, created_at |-> t, last_used_at |-> t, is_busy |-> FALSE,
     health_check_count |-> 0, failed_count |-> 0, disconnected |-> FALSE,
     channel_broken |-> FALSE]

\* the age and idle tests made inclusive
is_connection_valid_Inclusive(c, t) ==
    IF t - c.created_at >= max_lifetime THEN FALSE
    ELSE IF ~c.is_busy /\ t - c.last_used_at >= idle_timeout THEN FALSE
    ELSE IF c.failed_count > failure_threshold THEN FALSE
    ELSE TRUE

(* ---- _is_connection_valid, connection_pool.py:194-213 ---- *)
is_connection_valid(c, t) ==
    IF t - c.created_at > max_lifetime THEN FALSE
    ELSE IF ~c.is_busy /\ t - c.last_used_at > idle_timeout THEN FALSE
    ELSE IF c.failed_count > failure_threshold THEN FALSE
    ELSE TRUE

(* ---- the lock: threading.Lock().acquire() blocks until nobody holds it ---- *)
CanLock(t) == lock = NoThread

(* Each specification below moves one part of the program and keeps the    *)
(* variables of the other parts at rest.                                    *)

\* no construction call has been made
CtorQuiet ==
    /\ instance = 0
    /\ initialized = FALSE
    /\ hc_threads = 0
    /\ pool_max_size = 0
    /\ pool_tracked = FALSE
    /\ connection_pool = 0
    /\ ct_pc = [k \in Constructors |-> "idle"]
    /\ ct_arg = [k \in Constructors |-> 0]
    /\ ct_self = [k \in Constructors |-> 0]
    /\ ct_ret = [k \in Constructors |-> 0]
    /\ ct_via = [k \in Constructors |-> FALSE]
    /\ ct_calls = 0

\* arthas.py:55-84 ArthasClient.__init__: nothing is attached; in SSH mode the
\* SSH connection is set up
NewClient(ssh_mode) ==
    [ssh_mode |-> ssh_mode, ssh |-> ssh_mode, channel |-> FALSE, telnet |-> FALSE,
     process |-> FALSE, helper |-> "none", attached_pid |-> 0, pc |-> "idle",
     elapsed |-> 0, buffer |-> {}, result |-> "none", disc_calls |-> 0]

\* two local clients on which nothing is called
ClientQuiet == cl = [k \in Clients |-> NewClient(FALSE)]

\* config.py:14-19, 33-60: a registry entry; description tells the entries apart
CommandConfig(key, t) == [timeout |-> t, description |-> key]

\* no CommandConfig: nothing was returned
NoConfig == CommandConfig("", 0)

\* a new ArthasConfig on which nothing is called
ConfigQuiet ==
    cfg = [command_timeouts |-> [k \in DefaultKeys |-> CommandConfig(k, default_timeout)],
           command |-> <<>>, arg |-> <<>>, outcome |-> "none", result |-> NoConfig]

\* base.py:199-208 BaseCommand.__init__: no timeout, execute not called
CommandQuiet ==
    bc = [timeout |-> 0, pc |-> "idle", calls |-> <<>>, command |-> "",
          run_args |-> <<>>, result |-> "none", formatted |-> "none",
          ret |-> "none", raised |-> "none"]

\* the call of get_class_info_parallel with these arguments in this
\* environment has not begun
NewCall(histogram, javap, jmap_ok, pattern, max_matches, max_workers, show_detail) ==
    [histogram |-> histogram, javap |-> javap, jmap_ok |-> jmap_ok,
     pattern |-> pattern, max_matches |-> max_matches, max_workers |-> max_workers,
     show_detail |-> show_detail, pc |-> "idle", classes |-> <<>>,
     limited_by_max |-> FALSE, worker |-> <<>>, found |-> <<>>, success |-> FALSE]

ClassInfoQuiet ==
    ci = NewCall(<<>>, [n \in ClassNames |-> "info"], TRUE, "", 0, 1, FALSE)

ToolsQuiet == ConfigQuiet /\ CommandQuiet /\ ClassInfoQuiet

\* no call of _is_connection_valid on its own
ValidQuiet ==
    /\ v_conn = PooledConnection(1, 0)
    /\ v_now = 0
    /\ v_result = "none"

\* no call of _execute_command_internal
XQuiet ==
    /\ x_ssh = FALSE
    /\ x_open = FALSE
    /\ x_max_retries = 1
    /\ x_retry = 0
    /\ x_pc = "x_idle"
    /\ x_elapsed = 0
    /\ x_output_size = 0
    /\ x_truncated = FALSE
    /\ x_prompt = FALSE
    /\ x_sends = 0
    /\ x_chan_error = FALSE
    /\ x_result = "none"
    /\ x_waited = 0
    /\ x_failed = 0
    /\ x_pending = "none"
    /\ x_lines = {}

Init ==
    /\ CtorQuiet /\ ValidQuiet /\ XQuiet /\ ClientQuiet /\ ToolsQuiet
    /\ max_size \in 1..MaxPoolSize
    /\ now = 0
    /\ lock = NoThread
    /\ sess = <<>>
    /\ connections = <<>>
    /\ key_order = <<>>
    /\ available = <<>>
    /\ stop = FALSE
    /\ hc_todo = <<>>
    /\ pc = [t \in Threads |-> IF t \in Callers THEN "idle"
                               ELSE IF t = HC THEN "hc_loop" ELSE "running"]
    /\ pid = [t \in Threads |-> 1]
    /\ conn = [t \in Threads |-> NoConn]
    /\ start_time = [t \in Threads |-> 0]
    /\ attach_failed = [t \in Threads |-> FALSE]

(* time passes *)
Tick ==
    /\ now < MaxTime
    /\ now' = now + 1
    /\ UNCHANGED <<max_size, lock, sess, poolVars, stop, hc_todo, pc, localVars>>
    /\ UNCHANGED <<attach_failed, otherVars>>

(***************************************************************************)
(* ArthasClient._execute_command, arthas.py:399-417: a caller borrows a    *)
(* connection, runs one command on it and gives it back.                   *)
(***************************************************************************)

\* arthas.py:404 calls get_connection(pid); connection_pool.py:96 takes start_time
Acquire(t, p) ==
    /\ t \in Callers
    /\ pc[t] = "idle"
    /\ pid' = [pid EXCEPT ![t] = p]
    /\ start_time' = [start_time EXCEPT ![t] = now]
    /\ pc' = [pc EXCEPT ![t] = "gc_init"]
    /\ UNCHANGED <<max_size, now, lock, sess, poolVars, stop, hc_todo, conn>>
    /\ UNCHANGED <<attach_failed, otherVars>>

\* connection_pool.py:100-104: with self._lock, create the key's list and queue
get_connection_init(t) ==
    /\ pc[t] = "gc_init"
    /\ CanLock(t)
    /\ IF pid[t] \notin DOMAIN connections
       THEN /\ connections' = (pid[t] :> <<>>) @@ connections
            /\ available' = (pid[t] :> <<>>) @@ available
            /\ key_order' = Append(key_order, pid[t])
       ELSE UNCHANGED poolVars
    /\ pc' = [pc EXCEPT ![t] = "gc_loop"]
    /\ UNCHANGED <<max_size, now, lock, sess, stop, hc_todo, localVars>>
    /\ UNCHANGED <<attach_failed, otherVars>>

\* the locals of a call that has returned no longer exist
Returned(f, t, v) == [f EXCEPT ![t] = v]

\* the emptiness test inverted
QueueHasIdle_Inverted(p) == p \in DOMAIN available /\ available[p] = <<>>

\* connection_pool.py:109: the key has a queue and the queue is not empty
QueueHasIdle(p) == p \in DOMAIN available /\ available[p] # <<>>

\* connection_pool.py:106-109 and 149-151: the polling loop's condition (the
\* sleep of line 147 that leads back here changes no state), then the test of
\* line 109, read without the lock
get_connection_loop(t) ==
    /\ pc[t] = "gc_loop"
    /\ pc' = [pc EXCEPT ![t] =
                IF ~(now - start_time[t] < connection_timeout) THEN "timed_out"
                ELSE IF QueueHasIdle(pid[t]) THEN "gc_pop" ELSE "gc_lock"]
    /\ UNCHANGED <<max_size, now, lock, sess, poolVars, stop, hc_todo, localVars>>
    /\ UNCHANGED <<attach_failed, otherVars>>

\* a get that reads the head and leaves it in the queue
QueueAfterGet_Peek(q) == q

\* what Queue.get_nowait leaves in the queue
QueueAfterGet(q) == Tail(q)

\* connection_pool.py:110, without the lock: KeyError (caught at 143) when
\* shutdown cleared the map, Empty (caught at 141) when another caller was faster
get_connection_pop(t) ==
    /\ pc[t] = "gc_pop"
    /\ IF pid[t] \notin DOMAIN available \/ available[pid[t]] = <<>>
       THEN /\ pc' = [pc EXCEPT ![t] = "gc_loop"]
            /\ UNCHANGED <<available, conn>>
       ELSE /\ conn' = [conn EXCEPT ![t] = Head(available[pid[t]])]
            /\ available' = [available EXCEPT ![pid[t]] = QueueAfterGet(@)]
            /\ pc' = [pc EXCEPT ![t] = "gc_validate"]
    /\ UNCHANGED <<max_size, now, lock, sess, connections, key_order, stop,
                   hc_todo, pid, start_time>>
    /\ UNCHANGED <<attach_failed, otherVars>>

\* line 114 left out: whatever was popped is reused
ReuseAllowed_Always(c, t) == TRUE

\* connection_pool.py:114: if self._is_connection_valid(conn)
ReuseAllowed(c, t) == is_connection_valid(c, t)

\* connection_pool.py:114-122, without the lock
get_connection_validate(t) ==
    /\ pc[t] = "gc_validate"
    /\ IF ReuseAllowed(sess[conn[t]], now)
       THEN /\ sess' = [sess EXCEPT ![conn[t]].is_busy = TRUE,
                                    ![conn[t]].last_used_at = now]
            /\ pc' = [pc EXCEPT ![t] = "holding"]
            /\ pid' = Returned(pid, t, 1)
            /\ start_time' = Returned(start_time, t, 0)
            /\ attach_failed' = Returned(attach_failed, t, FALSE)
       ELSE /\ pc' = [pc EXCEPT ![t] = "gc_remove"]
            /\ UNCHANGED <<sess, pid, start_time, attach_failed>>
    /\ UNCHANGED <<max_size, now, lock, poolVars, stop, hc_todo, conn>>
    /\ UNCHANGED otherVars

\* connection_pool.py:215-225 _remove_connection, called from get_connection
\* (line 122), return_connection (line 157) and the sweep (line 245)
remove_connection(t) ==
    /\ pc[t] \in {"gc_remove", "rc_remove", "hc_remove"}
    /\ CanLock(t)
    /\ LET c == conn[t]
           p == sess[c].pid
       IN /\ connections' =
                IF p \in DOMAIN connections /\ InSeq(connections[p], c)
                THEN [connections EXCEPT ![p] = ListRemove(@, c)]
                ELSE connections
          /\ sess' = [sess EXCEPT ![c].disconnected = TRUE]
    /\ lock' = NoThread
    /\ pc' = [pc EXCEPT ![t] = CASE pc[t] = "gc_remove" -> "gc_lock"
                                  [] pc[t] = "rc_remove" -> "idle"
                                  [] OTHER -> "hc_iter"]
    /\ conn' = Returned(conn, t, NoConn)
    /\ pid' = IF pc[t] = "rc_remove" THEN Returned(pid, t, 1) ELSE pid
    /\ UNCHANGED <<max_size, now, key_order, available, stop, hc_todo, start_time>>
    /\ UNCHANGED <<attach_failed, otherVars>>

\* the bound test off by one
HasRoom_OffByOne(n) == n <= max_size

\* connection_pool.py:126-127: may another connection be created for the key
HasRoom(n) == n < max_size

\* connection_pool.py:125-127 and 138-139: take the lock and count
get_connection_lock(t) ==
    /\ pc[t] = "gc_lock"
    /\ CanLock(t)
    /\ LET current_connections ==
             IF pid[t] \in DOMAIN connections THEN Len(connections[pid[t]]) ELSE 0
       IN IF HasRoom(current_connections)
          THEN /\ lock' = t
               /\ pc' = [pc EXCEPT ![t] = "gc_attach"]
          ELSE /\ lock' = lock
               /\ pc' = [pc EXCEPT ![t] = "gc_loop"]
    /\ UNCHANGED <<max_size, now, sess, poolVars, stop, hc_todo, localVars>>
    /\ UNCHANGED <<attach_failed, otherVars>>

\* connection_pool.py:128-137 with _create_connection (165-192), the lock held:
\* the attach succeeds or raises (caught at 135, logged, and the loop goes on
\* after the sleep of line 137); line 132 raises KeyError (caught at 135) when
\* shutdown cleared the map after line 104
get_connection_attach(t) ==
    /\ pc[t] = "gc_attach"
    /\ \E ok \in BOOLEAN :
         IF ok
         THEN /\ Len(sess) < MaxSessions
              /\ LET c == Len(sess) + 1
                     new_conn == PooledConnection(pid[t], now)
                 IN IF pid[t] \in DOMAIN connections
                    THEN /\ sess' = Append(sess, [new_conn EXCEPT !.is_busy = TRUE])
                         /\ connections' = [connections EXCEPT ![pid[t]] = Append(@, c)]
                         /\ conn' = [conn EXCEPT ![t] = c]
                         /\ pc' = [pc EXCEPT ![t] = "holding"]
                         /\ pid' = Returned(pid, t, 1)
                         /\ start_time' = Returned(start_time, t, 0)
                         /\ attach_failed' = Returned(attach_failed, t, FALSE)
                    ELSE /\ sess' = Append(sess, new_conn)
                         /\ pc' = [pc EXCEPT ![t] = "gc_loop"]
                         /\ UNCHANGED <<connections, localVars, attach_failed>>
         ELSE /\ pc' = [pc EXCEPT ![t] = "gc_loop"]
              /\ attach_failed' = [attach_failed EXCEPT ![t] = TRUE]
              /\ UNCHANGED <<sess, connections, localVars>>
    /\ lock' = NoThread
    /\ UNCHANGED <<max_size, now, key_order, available, stop, hc_todo>>
    /\ UNCHANGED otherVars

\* connection_pool.py:151 raises TimeoutError; arthas.py:415-417 re-raises it
get_connection_timeout(t) ==
    /\ pc[t] = "timed_out"
    /\ pc' = [pc EXCEPT ![t] = "idle"]
    /\ pid' = Returned(pid, t, 1)
    /\ start_time' = Returned(start_time, t, 0)
    /\ UNCHANGED <<max_size, now, lock, sess, poolVars, stop, hc_todo, conn>>
    /\ attach_failed' = Returned(attach_failed, t, FALSE)
    /\ UNCHANGED otherVars

\* connection_pool.py:153-163 return_connection, called at arthas.py:413.  An
\* invalid connection goes to _remove_connection with the lock still held; line
\* 162 raises KeyError when shutdown cleared the map
return_connection(t) ==
    /\ pc[t] = "holding"
    /\ CanLock(t)
    /\ LET c == conn[t] IN
         IF ~is_connection_valid(sess[c], now)
         THEN /\ lock' = t
              /\ pc' = [pc EXCEPT ![t] = "rc_remove"]
              /\ UNCHANGED <<sess, available, conn>>
         ELSE /\ sess' = [sess EXCEPT ![c].is_busy = FALSE, ![c].last_used_at = now]
              /\ available' = IF sess[c].pid \in DOMAIN available
                              THEN [available EXCEPT ![sess[c].pid] = Append(@, c)]
                              ELSE available
              /\ lock' = lock
              /\ pc' = [pc EXCEPT ![t] = "idle"]
              /\ conn' = Returned(conn, t, NoConn)
    /\ UNCHANGED <<max_size, now, connections, key_order, stop, hc_todo, pid, start_time>>
    /\ UNCHANGED <<attach_failed, otherVars>>

(***************************************************************************)
(* The health-check thread, connection_pool.py:227-256.                    *)
(***************************************************************************)

\* connection_pool.py:229 (and the wait of line 236 that precedes the next test)
health_check_loop(t) ==
    /\ t = HC
    /\ pc[t] = "hc_loop"
    /\ pc' = [pc EXCEPT ![t] = IF stop THEN "hc_done" ELSE "hc_lock"]
    /\ UNCHANGED <<max_size, now, lock, sess, poolVars, stop, hc_todo, localVars>>
    /\ UNCHANGED <<attach_failed, otherVars>>

\* connection_pool.py:240-242: take the lock; the sweep visits the connections
\* of every key
check_all_connections_lock(t) ==
    /\ pc[t] = "hc_lock"
    /\ CanLock(t)
    /\ lock' = t
    /\ hc_todo' = Flatten(key_order, connections)
    /\ pc' = [pc EXCEPT ![t] = "hc_iter"]
    /\ UNCHANGED <<max_size, now, sess, poolVars, stop, localVars>>
    /\ UNCHANGED <<attach_failed, otherVars>>

\* connection_pool.py:242-243: the next connection of the sweep; a busy one is
\* skipped; at the end of the sweep the lock is released
check_all_connections_iter(t) ==
    /\ pc[t] = "hc_iter"
    /\ IF hc_todo = <<>>
       THEN /\ lock' = NoThread
            /\ pc' = [pc EXCEPT ![t] = "hc_loop"]
            /\ UNCHANGED <<hc_todo, conn>>
       ELSE /\ hc_todo' = Tail(hc_todo)
            /\ lock' = lock
            /\ IF sess[Head(hc_todo)].is_busy
               THEN UNCHANGED <<pc, conn>>
               ELSE /\ conn' = [conn EXCEPT ![t] = Head(hc_todo)]
                    /\ pc' = [pc EXCEPT ![t] = "hc_validate"]
    /\ UNCHANGED <<max_size, now, sess, poolVars, stop, pid, start_time>>
    /\ UNCHANGED <<attach_failed, otherVars>>

\* connection_pool.py:244-249: an invalid connection goes to _remove_connection;
\* a valid one is probed with conn.client._execute_command(conn.pid, "version"),
\* which is the pooled wrapper of arthas.py:399 and so calls get_connection
check_all_connections_validate(t) ==
    /\ pc[t] = "hc_validate"
    /\ IF ~is_connection_valid(sess[conn[t]], now)
       THEN /\ pc' = [pc EXCEPT ![t] = "hc_remove"]
            /\ UNCHANGED <<pid, start_time>>
       ELSE /\ pid' = [pid EXCEPT ![t] = sess[conn[t]].pid]
            /\ start_time' = [start_time EXCEPT ![t] = now]
            /\ pc' = [pc EXCEPT ![t] = "gc_init"]
    /\ UNCHANGED <<max_size, now, lock, sess, poolVars, stop, hc_todo, conn>>
    /\ UNCHANGED <<attach_failed, otherVars>>

(***************************************************************************)
(* shutdown, connection_pool.py:258-274.                                   *)
(***************************************************************************)

\* connection_pool.py:261
shutdown_signal(t) ==
    /\ t = Main
    /\ pc[t] = "running"
    /\ stop' = TRUE
    /\ pc' = [pc EXCEPT ![t] = "sd_join"]
    /\ UNCHANGED <<max_size, now, lock, sess, poolVars, hc_todo, localVars>>
    /\ UNCHANGED <<attach_failed, otherVars>>

\* a shutdown that leaves the connections that are checked out alone
ShutdownDisconnects_IdleOnly(c) ==
    /\ \E p \in DOMAIN connections : InSeq(connections[p], c)
    /\ ~sess[c].is_busy

\* connection_pool.py:265-270: every connection of every key's list
ShutdownDisconnects(c) ==
    \E p \in DOMAIN connections : InSeq(connections[p], c)

\* connection_pool.py:262-272: once the join has returned, take the lock,
\* disconnect what is tracked and clear both maps
shutdown_clear(t) ==
    /\ pc[t] = "sd_join"
    /\ pc[HC] = "hc_done"
    /\ CanLock(t)
    /\ sess' = [c \in DOMAIN sess |->
                 IF ShutdownDisconnects(c)
                 THEN [sess[c] EXCEPT !.disconnected = TRUE] ELSE sess[c]]
    /\ connections' = <<>>
    /\ available' = <<>>
    /\ key_order' = <<>>
    /\ pc' = [pc EXCEPT ![t] = "sd_done"]
    /\ UNCHANGED <<max_size, now, lock, stop, hc_todo, localVars>>
    /\ UNCHANGED <<attach_failed, otherVars>>

Next ==
    \/ Tick
    \/ \E t \in Callers, p \in Pids : Acquire(t, p)
    \/ \E t \in Threads : get_connection_init(t)
    \/ \E t \in Threads : get_connection_loop(t)
    \/ \E t \in Threads : get_connection_pop(t)
    \/ \E t \in Threads : get_connection_validate(t)
    \/ \E t \in Threads : remove_connection(t)
    \/ \E t \in Threads : get_connection_lock(t)
    \/ \E t \in Threads : get_connection_attach(t)
    \/ \E t \in Threads : get_connection_timeout(t)
    \/ \E t \in Threads : return_connection(t)
    \/ health_check_loop(HC)
    \/ check_all_connections_lock(HC)
    \/ check_all_connections_iter(HC)
    \/ check_all_connections_validate(HC)
    \/ shutdown_signal(Main)
    \/ shutdown_clear(Main)

Spec == Init /\ [][Next]_vars

(***************************************************************************)
(* The pooled wrapper with commands that fail: ArthasClient._execute_command*)
(* (arthas.py:399-417) used by the callers alone, no sweep and no shutdown. *)
(***************************************************************************)

\* arthas.py:407: _execute_command_internal raises on a channel failure; the
\* finally of lines 411-413 then calls return_connection on the connection
execute_channel_error(t) ==
    /\ t \in Callers
    /\ pc[t] = "holding"
    /\ ~sess[conn[t]].channel_broken
    /\ sess' = [sess EXCEPT ![conn[t]].channel_broken = TRUE]
    /\ UNCHANGED <<max_size, now, lock, poolVars, stop, hc_todo, pc, localVars>>
    /\ UNCHANGED <<attach_failed, otherVars>>

ExecNext ==
    \/ Tick
    \/ \E t \in Callers, p \in Pids : Acquire(t, p)
    \/ \E t \in Callers : get_connection_init(t)
    \/ \E t \in Callers : get_connection_loop(t)
    \/ \E t \in Callers : get_connection_pop(t)
    \/ \E t \in Callers : get_connection_validate(t)
    \/ \E t \in Callers : remove_connection(t)
    \/ \E t \in Callers : get_connection_lock(t)
    \/ \E t \in Callers : get_connection_attach(t)
    \/ \E t \in Callers : get_connection_timeout(t)
    \/ \E t \in Callers : execute_channel_error(t)
    \/ \E t \in Callers : return_connection(t)

ExecSpec == Init /\ [][ExecNext]_vars

(***************************************************************************)
(* Callers that call return_connection with a connection they do not hold: *)
(* one they have returned already, or one they never got.                  *)
(***************************************************************************)

\* connection_pool.py:153: return_connection(connection) is called by a caller
\* that has no connection checked out, with some connection that exists; the
\* call itself is the step return_connection
redundant_release(t, c) ==
    /\ t \in Callers
    /\ pc[t] = "idle"
    /\ c \in DOMAIN sess
    /\ sess[c].pid \in DOMAIN available => Len(available[sess[c].pid]) < MaxSessions
    /\ conn' = [conn EXCEPT ![t] = c]
    /\ pc' = [pc EXCEPT ![t] = "holding"]
    /\ UNCHANGED <<max_size, now, lock, sess, poolVars, stop, hc_todo, pid, start_time>>
    /\ UNCHANGED <<attach_failed, otherVars>>

ReleaseNext ==
    \/ Next
    \/ \E t \in Callers, c \in 1..MaxSessions : redundant_release(t, c)

ReleaseSpec == Init /\ [][ReleaseNext]_vars

\* the pool freshly constructed, with nobody using it
PoolQuiet ==
    /\ max_size = 1
    /\ now = 0
    /\ lock = NoThread
    /\ sess = <<>>
    /\ connections = <<>>
    /\ key_order = <<>>
    /\ available = <<>>
    /\ stop = FALSE
    /\ hc_todo = <<>>
    /\ pc = [t \in Threads |-> IF t \in Callers THEN "idle"
                               ELSE IF t = HC THEN "hc_loop" ELSE "running"]
    /\ pid = [t \in Threads |-> 1]
    /\ conn = [t \in Threads |-> NoConn]
    /\ start_time = [t \in Threads |-> 0]
    /\ attach_failed = [t \in Threads |-> FALSE]

(***************************************************************************)
(* Construction of the pool: ArthasConnectionPool.__new__ and __init__,    *)
(* connection_pool.py:31-80, and the lazy lookup of arthas.py:26-32.       *)
(***************************************************************************)

CtorInit == PoolQuiet /\ CtorQuiet /\ ValidQuiet /\ XQuiet /\ ClientQuiet /\ ToolsQuiet

\* a thread calls ArthasConnectionPool(max_size=a) itself
ctor_call(k, a) ==
    /\ ct_pc[k] = "idle"
    /\ ct_calls < MaxCtorCalls
    /\ ct_calls' = ct_calls + 1
    /\ ct_arg' = [ct_arg EXCEPT ![k] = a]
    /\ ct_via' = [ct_via EXCEPT ![k] = FALSE]
    /\ ct_pc' = [ct_pc EXCEPT ![k] = "ct_new"]
    /\ UNCHANGED <<instance, initialized, hc_threads, pool_max_size,
                   pool_tracked, connection_pool, ct_self, ct_ret>>
    /\ UNCHANGED <<poolState, validVars, xVars, clientVars, toolVars>>

\* arthas.py:29-32: the test of the class attribute, without a lock; the
\* constructor is called with its defaults when the attribute is None
get_connection_pool(k) ==
    /\ ct_pc[k] = "idle"
    /\ ct_calls < MaxCtorCalls
    /\ ct_calls' = ct_calls + 1
    /\ IF connection_pool = 0
       THEN /\ ct_arg' = [ct_arg EXCEPT ![k] = default_max_size]
            /\ ct_via' = [ct_via EXCEPT ![k] = TRUE]
            /\ ct_pc' = [ct_pc EXCEPT ![k] = "ct_new"]
            /\ UNCHANGED ct_ret
       ELSE /\ ct_ret' = [ct_ret EXCEPT ![k] = connection_pool]
            /\ UNCHANGED <<ct_arg, ct_via, ct_pc>>
    /\ UNCHANGED <<instance, initialized, hc_threads, pool_max_size,
                   pool_tracked, connection_pool, ct_self>>
    /\ UNCHANGED <<poolState, validVars, xVars, clientVars, toolVars>>

\* connection_pool.py:34-38 __new__: test and assignment under cls._lock
ctor_new(k) ==
    /\ ct_pc[k] = "ct_new"
    /\ instance' = IF instance = 0 THEN 1 ELSE instance
    /\ ct_self' = [ct_self EXCEPT ![k] = instance']
    /\ ct_pc' = [ct_pc EXCEPT ![k] = "ct_check"]
    /\ UNCHANGED <<initialized, hc_threads, pool_max_size, pool_tracked,
                   connection_pool, ct_arg, ct_ret, ct_via, ct_calls>>
    /\ UNCHANGED <<poolState, validVars, xVars, clientVars, toolVars>>

\* what a call leaves in the class attribute when it returns (arthas.py:31)
AssignedPool(k) == IF ct_via[k] THEN ct_self[k] ELSE connection_pool

\* the test of line 58 left out: the object is taken for new
HasInitialized_Never == FALSE

\* connection_pool.py:58: hasattr(self, '_initialized')
HasInitialized == initialized

\* connection_pool.py:58: the test of _initialized, without a lock; an
\* initialized object is returned as it is
ctor_check(k) ==
    /\ ct_pc[k] = "ct_check"
    /\ IF ~HasInitialized
       THEN /\ ct_pc' = [ct_pc EXCEPT ![k] = "ct_body"]
            /\ UNCHANGED <<connection_pool, ct_arg, ct_self, ct_ret, ct_via>>
       ELSE /\ ct_pc' = [ct_pc EXCEPT ![k] = "idle"]
            /\ ct_ret' = [ct_ret EXCEPT ![k] = ct_self[k]]
            /\ connection_pool' = AssignedPool(k)
            /\ ct_arg' = [ct_arg EXCEPT ![k] = 0]
            /\ ct_self' = [ct_self EXCEPT ![k] = 0]
            /\ ct_via' = [ct_via EXCEPT ![k] = FALSE]
    /\ UNCHANGED <<instance, initialized, hc_threads, pool_max_size,
                   pool_tracked, ct_calls>>
    /\ UNCHANGED <<poolState, validVars, xVars, clientVars, toolVars>>

\* connection_pool.py:59-77: the configuration is stored, both maps are set
\* to empty dicts and a health-check thread is started
ctor_body(k) ==
    /\ ct_pc[k] = "ct_body"
    /\ pool_max_size' = ct_arg[k]
    /\ pool_tracked' = FALSE
    /\ hc_threads' = hc_threads + 1
    /\ ct_pc' = [ct_pc EXCEPT ![k] = "ct_mark"]
    /\ UNCHANGED <<instance, initialized, connection_pool, ct_arg, ct_self,
                   ct_ret, ct_via, ct_calls>>
    /\ UNCHANGED <<poolState, validVars, xVars, clientVars, toolVars>>

\* connection_pool.py:79-80: _initialized is set and the call returns
ctor_mark(k) ==
    /\ ct_pc[k] = "ct_mark"
    /\ initialized' = TRUE
    /\ ct_ret' = [ct_ret EXCEPT ![k] = ct_self[k]]
    /\ connection_pool' = AssignedPool(k)
    /\ ct_pc' = [ct_pc EXCEPT ![k] = "idle"]
    /\ ct_arg' = [ct_arg EXCEPT ![k] = 0]
    /\ ct_self' = [ct_self EXCEPT ![k] = 0]
    /\ ct_via' = [ct_via EXCEPT ![k] = FALSE]
    /\ UNCHANGED <<instance, hc_threads, pool_max_size, pool_tracked, ct_calls>>
    /\ UNCHANGED <<poolState, validVars, xVars, clientVars, toolVars>>

\* connection_pool.py:131-132: a get_connection on the constructed pool
\* tracks a connection
pool_in_use ==
    /\ initialized
    /\ ~pool_tracked
    /\ pool_tracked' = TRUE
    /\ UNCHANGED <<instance, initialized, hc_threads, pool_max_size,
                   connection_pool, ct_pc, ct_arg, ct_self, ct_ret, ct_via, ct_calls>>
    /\ UNCHANGED <<poolState, validVars, xVars, clientVars, toolVars>>

CtorNext ==
    \/ \E k \in Constructors, a \in 1..MaxPoolSize : ctor_call(k, a)
    \/ \E k \in Constructors : get_connection_pool(k)
    \/ \E k \in Constructors : ctor_new(k)
    \/ \E k \in Constructors : ctor_check(k)
    \/ \E k \in Constructors : ctor_body(k)
    \/ \E k \in Constructors : ctor_mark(k)
    \/ pool_in_use

CtorSpec == CtorInit /\ [][CtorNext]_vars

(***************************************************************************)
(* _is_connection_valid, connection_pool.py:194-213, applied to one         *)
(* connection at one time.                                                  *)
(***************************************************************************)

\* the connections and times the function is applied to
ValidInit ==
    /\ PoolQuiet /\ CtorQuiet /\ XQuiet /\ ClientQuiet /\ ToolsQuiet
    /\ v_now \in 0..MaxTime
    /\ \E created \in 0..v_now, used \in 0..v_now, busy \in BOOLEAN,
          failed \in 0..MaxFailed :
          /\ created <= used
          /\ v_conn = [PooledConnection(1, created) EXCEPT
                          !.last_used_at = used, !.is_busy = busy,
                          !.failed_count = failed]
    /\ v_result = "none"

\* connection_pool.py:194-213: one call
is_connection_valid_call ==
    /\ v_result = "none"
    /\ v_result' = IF is_connection_valid(v_conn, v_now) THEN "valid" ELSE "invalid"
    /\ UNCHANGED <<v_conn, v_now>>
    /\ UNCHANGED <<poolState, ctorVars, xVars, clientVars, toolVars>>

ValidNext == is_connection_valid_call

ValidSpec == ValidInit /\ [][ValidNext]_vars

(***************************************************************************)
(* ArthasClient._execute_command_internal, arthas.py:419-557: one call on  *)
(* one client, in SSH mode or in local (telnet) mode.                      *)
(***************************************************************************)

XInit ==
    /\ PoolQuiet /\ CtorQuiet /\ ValidQuiet /\ ClientQuiet /\ ToolsQuiet
    /\ x_ssh \in BOOLEAN
    /\ x_open \in BOOLEAN
    /\ x_max_retries \in 0..MaxRetries
    /\ x_retry = 0
    /\ x_pc = "x_idle"
    /\ x_elapsed = 0
    /\ x_output_size = 0
    /\ x_truncated = FALSE
    /\ x_prompt = FALSE
    /\ x_sends = 0
    /\ x_chan_error = FALSE
    /\ x_result = "none"
    /\ x_waited = 0
    /\ x_failed = 0
    /\ x_pending \in {"none", "buffered", "in_flight"}
    /\ x_open \/ x_pending = "none"
    /\ x_lines = {}

\* arthas.py:419-430 and 557: the policy is read and the retry loop entered;
\* with max_retries = 0 the loop body never runs and line 557 raises
execute_command_internal ==
    /\ x_pc = "x_idle"
    /\ x_result = "none"
    /\ IF x_max_retries = 0
       THEN /\ x_result' = "Exception"
            /\ x_pc' = "x_done"
       ELSE /\ x_pc' = "x_attempt"
            /\ UNCHANGED x_result
    /\ UNCHANGED <<x_ssh, x_open, x_max_retries, x_retry, x_elapsed,
                   x_output_size, x_truncated, x_prompt, x_sends, x_chan_error>>
    /\ UNCHANGED <<x_waited, x_failed, x_pending, x_lines>>
    /\ UNCHANGED <<poolState, ctorVars, validVars, clientVars, toolVars>>

\* arthas.py:437-439 (recv while recv_ready) and 491 (read_very_eager): what
\* has arrived is read and dropped; what has not arrived is not
Drained(pending) == IF pending = "buffered" THEN "none" ELSE pending

\* arthas.py:432-448 (SSH) and 486-501 (local): without a channel the SSH
\* branch raises and the local branch opens a telnet connection, which may
\* fail; pending input is drained and the command line is written, which
\* may fail; the accumulation starts empty
x_send(opened, written) ==
    /\ x_pc = "x_attempt"
    /\ IF ~x_open /\ (x_ssh \/ ~opened)
       THEN /\ x_pc' = "x_except_other"
            /\ UNCHANGED <<x_open, x_sends, x_elapsed, x_output_size,
                           x_truncated, x_prompt, x_pending, x_lines>>
       ELSE /\ x_open' = TRUE
            /\ x_pending' = Drained(x_pending)
            /\ IF written
               THEN /\ x_sends' = x_sends + 1
                    /\ x_elapsed' = 0
                    /\ x_output_size' = 0
                    /\ x_truncated' = FALSE
                    /\ x_prompt' = FALSE
                    /\ x_lines' = {}
                    /\ x_pc' = "x_recv"
               ELSE /\ x_pc' = "x_except_other"
                    /\ UNCHANGED <<x_sends, x_elapsed, x_output_size,
                                   x_truncated, x_prompt, x_lines>>
    /\ UNCHANGED <<x_ssh, x_max_retries, x_retry, x_chan_error, x_result>>
    /\ UNCHANGED <<x_waited, x_failed>>
    /\ UNCHANGED <<poolState, ctorVars, validVars, clientVars, toolVars>>

\* len(s.encode('utf-8')) of a string of n characters of w bytes each
EncodedSize(n, w) == n * w

\* chunk[:remaining]: the first `remaining` characters, all n when there are fewer
SliceLen(n, remaining) == IF remaining < n THEN remaining ELSE n

\* arthas.py:451 / 505: the lines a chunk that was read holds: lines of the
\* command's output, maybe its echo, maybe a line with the prompt "$", and
\* whatever output of an earlier command was waiting on the connection
ChunkLines(has_prompt, has_echo) ==
    {"data"} \cup (IF has_prompt THEN {"prompt"} ELSE {})
             \cup (IF has_echo THEN {"echo"} ELSE {})
             \cup (IF x_pending = "buffered" THEN {"stale"} ELSE {})

\* arthas.py:450-469 and 503-522: inside the deadline a chunk of n characters
\* of w bytes each is read; when its encoded size goes over the cap the first
\* `remaining` characters are kept and the loop left, else the chunk is added
\* and the loop left when the chunk holds the prompt "$"
x_recv_chunk(n, w, has_prompt, has_echo) ==
    /\ x_pc = "x_recv"
    /\ x_elapsed < timeout
    /\ x_pending' = Drained(x_pending)
    /\ IF x_output_size + EncodedSize(n, w) > max_output_size
       THEN /\ LET remaining == max_output_size - x_output_size
               IN /\ x_output_size' =
                        IF remaining > 0
                        THEN x_output_size + EncodedSize(SliceLen(n, remaining), w)
                        ELSE x_output_size
                  /\ x_lines' = IF remaining > 0
                                THEN x_lines \cup ChunkLines(has_prompt, has_echo)
                                ELSE x_lines
            /\ x_truncated' = TRUE
            /\ x_pc' = "x_post"
            /\ UNCHANGED x_prompt
       ELSE /\ x_output_size' = x_output_size + EncodedSize(n, w)
            /\ x_lines' = x_lines \cup ChunkLines(has_prompt, has_echo)
            /\ x_prompt' = has_prompt
            /\ x_pc' = IF has_prompt THEN "x_post" ELSE "x_recv"
            /\ UNCHANGED x_truncated
    /\ UNCHANGED <<x_ssh, x_open, x_max_retries, x_retry, x_elapsed, x_sends,
                   x_chan_error, x_result>>
    /\ UNCHANGED <<x_waited, x_failed>>
    /\ UNCHANGED <<poolState, ctorVars, validVars, clientVars, toolVars>>

\* arthas.py:505 and 525-527, local mode: the peer closed the connection,
\* read_eager raises EOFError, the handler logs it and leaves the loop
x_recv_eof ==
    /\ x_pc = "x_recv"
    /\ x_elapsed < timeout
    /\ ~x_ssh
    /\ x_chan_error' = TRUE
    /\ x_pc' = "x_post"
    /\ UNCHANGED <<x_ssh, x_open, x_max_retries, x_retry, x_elapsed,
                   x_output_size, x_truncated, x_prompt, x_sends, x_result>>
    /\ UNCHANGED <<x_waited, x_failed, x_pending, x_lines>>
    /\ UNCHANGED <<poolState, ctorVars, validVars, clientVars, toolVars>>

\* arthas.py:451-452 and 505: the read raises something else, socket.timeout
\* (handled at 543) or another socket error (handled at 550)
x_recv_error(is_timeout) ==
    /\ x_pc = "x_recv"
    /\ x_elapsed < timeout
    /\ x_chan_error' = TRUE
    /\ x_pc' = IF is_timeout THEN "x_except_timeout" ELSE "x_except_other"
    /\ UNCHANGED <<x_ssh, x_open, x_max_retries, x_retry, x_elapsed,
                   x_output_size, x_truncated, x_prompt, x_sends, x_result>>
    /\ UNCHANGED <<x_waited, x_failed, x_pending, x_lines>>
    /\ UNCHANGED <<poolState, ctorVars, validVars, clientVars, toolVars>>

\* arthas.py:470 and 524: time passes while the attempt polls, and between
\* leaving the loop and the test of line 472 / 529
x_tick ==
    /\ x_pc \in {"x_recv", "x_post"}
    /\ x_elapsed < timeout
    /\ x_elapsed' = x_elapsed + 1
    /\ UNCHANGED <<x_ssh, x_open, x_max_retries, x_retry, x_pc, x_output_size,
                   x_truncated, x_prompt, x_sends, x_chan_error, x_result>>
    /\ UNCHANGED <<x_waited, x_failed, x_pending, x_lines>>
    /\ UNCHANGED <<poolState, ctorVars, validVars, clientVars, toolVars>>

\* arthas.py:476-477 / 533-534: empty lines, lines that start with the command
\* and lines with a "$" are dropped
Filtered(lines) == lines \ {"echo", "prompt"}

\* arthas.py:450 / 503 and 472-484 / 529-541: the loop ends at the deadline or
\* was left by a break; past the deadline TimeoutError is raised, else the
\* accumulated output is returned
x_finish ==
    /\ \/ x_pc = "x_post"
       \/ x_pc = "x_recv" /\ ~(x_elapsed < timeout)
    /\ IF x_elapsed >= timeout
       THEN /\ x_pc' = "x_except_timeout"
            /\ UNCHANGED x_result
       ELSE /\ x_result' = "success"
            /\ x_pc' = "x_done"
    /\ x_lines' = IF x_elapsed >= timeout THEN x_lines
                  ELSE Filtered(x_lines) \cup
                       (IF x_truncated THEN {"truncation_note"} ELSE {})
    /\ UNCHANGED <<x_ssh, x_open, x_max_retries, x_retry, x_elapsed,
                   x_output_size, x_truncated, x_prompt, x_sends, x_chan_error>>
    /\ UNCHANGED <<x_waited, x_failed, x_pending>>
    /\ UNCHANGED <<poolState, ctorVars, validVars, clientVars, toolVars>>

\* one attempt too many
RetryAgain_OffByOne(retry) == retry < x_max_retries

\* arthas.py:545 and 552: retry < max_retries - 1
RetryAgain(retry) == retry < x_max_retries - 1

\* arthas.py:543-555: both handlers sleep retry_interval and go round the
\* loop again on the same channel, or re-raise after the last attempt; the
\* command of an attempt that timed out before its prompt came may still be
\* running on the target (late), and its output is then yet to come
x_except(late) ==
    /\ x_pc \in {"x_except_timeout", "x_except_other"}
    /\ x_failed' = x_failed + 1
    /\ x_pending' = IF late /\ x_pc = "x_except_timeout" /\ ~x_prompt
                    THEN "in_flight" ELSE x_pending
    /\ UNCHANGED x_lines
    /\ IF RetryAgain(x_retry)
       THEN /\ x_waited' = x_waited + retry_interval
            /\ x_retry' = x_retry + 1
            /\ x_pc' = "x_attempt"
            /\ UNCHANGED x_result
       ELSE /\ x_result' = IF x_pc = "x_except_timeout" THEN "TimeoutError"
                                                        ELSE "Exception"
            /\ x_pc' = "x_done"
            /\ UNCHANGED <<x_retry, x_waited>>
    /\ UNCHANGED <<x_ssh, x_open, x_max_retries, x_elapsed, x_output_size,
                   x_truncated, x_prompt, x_sends, x_chan_error>>
    /\ UNCHANGED <<poolState, ctorVars, validVars, clientVars, toolVars>>

\* output of an earlier command reaches the connection's buffer while the
\* call is at work
x_arrive ==
    /\ x_pc \in {"x_attempt", "x_recv", "x_post"}
    /\ x_pending = "in_flight"
    /\ x_pending' = "buffered"
    /\ UNCHANGED <<x_ssh, x_open, x_max_retries, x_retry, x_pc, x_elapsed,
                   x_output_size, x_truncated, x_prompt, x_sends, x_chan_error,
                   x_result, x_waited, x_failed, x_lines>>
    /\ UNCHANGED <<poolState, ctorVars, validVars, clientVars, toolVars>>

XNext ==
    \/ execute_command_internal
    \/ \E opened \in BOOLEAN, written \in BOOLEAN : x_send(opened, written)
    \/ \E n \in 1..MaxChunk, w \in 1..MaxWidth, has_prompt \in BOOLEAN,
          has_echo \in BOOLEAN : x_recv_chunk(n, w, has_prompt, has_echo)
    \/ x_arrive
    \/ x_recv_eof
    \/ \E is_timeout \in BOOLEAN : x_recv_error(is_timeout)
    \/ x_tick
    \/ x_finish
    \/ \E late \in BOOLEAN : x_except(late)

XSpec == XInit /\ [][XNext]_vars

(***************************************************************************)
(* ArthasClient._attach_to_process (arthas.py:163-314) and _disconnect     *)
(* (arthas.py:335-381) on every client object.                             *)
(***************************************************************************)

ClientInit ==
    /\ PoolQuiet /\ CtorQuiet /\ ValidQuiet /\ XQuiet /\ ToolsQuiet
    /\ \E m \in [Clients -> BOOLEAN] : cl = [k \in Clients |-> NewClient(m[k])]

\* a reference that survives a close that raised
ClosedRef_KeepOnFailure(ref, close_failed) == ref /\ close_failed

\* arthas.py:345-346, 356-357, 371-372, 380-381: the finally clause sets the
\* reference to None whether or not the close raised
ClosedRef(ref, close_failed) == FALSE

\* arthas.py:335-381 _disconnect on the client c; `fails` says that the quit /
\* close / terminate calls raise, which the except clauses swallow.
\* attached_pid is reset in the channel and telnet blocks only; the helper
\* process is terminated only through self.arthas_process
Disconnected(c, fails) ==
    [c EXCEPT !.channel = ClosedRef(c.channel, fails),
              !.telnet = ClosedRef(c.telnet, fails),
              !.attached_pid = IF c.channel \/ c.telnet THEN 0 ELSE c.attached_pid,
              !.process = ClosedRef(c.process, fails),
              !.helper = IF c.process /\ c.helper = "running" /\ ~fails
                         THEN "exited" ELSE c.helper,
              !.ssh = ClosedRef(c.ssh, fails)]

\* a call of _attach_to_process has ended with this result
Ended(c, r) == [c EXCEPT !.pc = "idle", !.result = r, !.elapsed = 0]

\* arthas.py:163-194 and 238-258: return at once when attached over a channel
\* to this pid; else _disconnect, then in SSH mode make sure of the SSH
\* connection, look for the process and open the channel, in local mode
\* start the helper process; a failure on the way raises after _disconnect
attach_to_process(k, ok, fails) ==
    /\ cl[k].pc = "idle"
    /\ LET c == cl[k]
           d == [Disconnected(c, fails) EXCEPT !.buffer = {}, !.result = "none"]
       IN cl' = [cl EXCEPT ![k] =
                   IF c.attached_pid = 1 /\ c.channel THEN Ended(c, "ok")
                   ELSE IF ~ok THEN Ended(Disconnected(d, fails), "exception")
                   ELSE IF c.ssh_mode
                        THEN [d EXCEPT !.ssh = TRUE, !.channel = TRUE,
                                       !.pc = "ssh_poll"]
                        ELSE [d EXCEPT !.helper = "running", !.pc = "local_poll"]]
    /\ UNCHANGED <<poolState, ctorVars, validVars, xVars, toolVars>>

\* arthas.py:208-216: the tests on the accumulated buffer, in this order
AttachVerdict(buffer) ==
    IF "denied" \in buffer THEN "denied"
    ELSE IF "error" \in buffer THEN "error"
    ELSE IF "prompt" \in buffer THEN "ok"
    ELSE "none"

\* arthas.py:202-235, SSH mode, inside the 30 s: output with the markers m is
\* received and appended to the buffer (or the receive raises); a failure
\* verdict disconnects and raises, the prompt sets attached_pid
attach_ssh_recv(k, m, raises, fails) ==
    /\ cl[k].pc = "ssh_poll"
    /\ cl[k].elapsed < attach_timeout
    /\ LET c == cl[k]
           b == c.buffer \cup m
           v == AttachVerdict(b)
       IN cl' = [cl EXCEPT ![k] =
                   IF raises THEN Ended(Disconnected(c, fails), "exception")
                   ELSE IF v = "none" THEN [c EXCEPT !.buffer = b]
                   ELSE IF v = "ok"
                        THEN Ended([c EXCEPT !.buffer = b, !.attached_pid = 1], "ok")
                        ELSE Ended(Disconnected([c EXCEPT !.buffer = b], fails), v)]
    /\ UNCHANGED <<poolState, ctorVars, validVars, xVars, toolVars>>

\* arthas.py:217 and 298: time passes between two polls
attach_tick(k) ==
    /\ cl[k].pc \in {"ssh_poll", "local_poll"}
    /\ cl[k].elapsed < attach_timeout
    /\ cl' = [cl EXCEPT ![k].elapsed = @ + 1]
    /\ UNCHANGED <<poolState, ctorVars, validVars, xVars, toolVars>>

\* arthas.py:202 and 219-224: the 30 s are over without a verdict
attach_ssh_timeout(k, fails) ==
    /\ cl[k].pc = "ssh_poll"
    /\ ~(cl[k].elapsed < attach_timeout)
    /\ cl' = [cl EXCEPT ![k] = Ended(Disconnected(cl[k], fails), "timeout")]
    /\ UNCHANGED <<poolState, ctorVars, validVars, xVars, toolVars>>

\* what the helper's stdout may hold
StdoutMarkers == {"denied", "error"}

\* the helper process started at line 252 writes to its stdout, a pipe that
\* _attach_to_process never reads
helper_emits(k, m) ==
    /\ cl[k].pc = "local_poll"
    /\ cl[k].helper = "running"
    /\ m \notin cl[k].buffer
    /\ cl' = [cl EXCEPT ![k].buffer = @ \cup {m}]
    /\ UNCHANGED <<poolState, ctorVars, validVars, xVars, toolVars>>

\* the helper process started at line 252 exits
helper_exits(k) ==
    /\ cl[k].pc = "local_poll"
    /\ cl[k].helper = "running"
    /\ cl' = [cl EXCEPT ![k].helper = "exited"]
    /\ UNCHANGED <<poolState, ctorVars, validVars, xVars, toolVars>>

\* arthas.py:300-314: the helper is terminated and waited for 5 s when it
\* still runs; a wait that times out raises into the handler of line 311,
\* which calls _disconnect and re-raises with the helper still running
FailLocal(c, reason, dies, fails) ==
    IF c.helper = "running" /\ ~dies
    THEN Ended(Disconnected(c, fails), "exception")
    ELSE Ended(Disconnected([c EXCEPT !.helper = IF c.helper = "running"
                                                 THEN "exited" ELSE c.helper],
                            fails), reason)

\* arthas.py:265-298, local mode, one round of the loop inside the 30 s: the
\* helper has exited; or a telnet connection is tried: refused, closed by the
\* peer while reading (the connection stays in self.telnet), answered without
\* the banner (closed again), answered with the banner (attached), or the
\* answer cannot be decoded (raises into the handler of line 311); then a line
\* on the helper's stderr ends the attach as an error
attach_local_poll(k, tn, has_err, dies, fails) ==
    /\ cl[k].pc = "local_poll"
    /\ cl[k].elapsed < attach_timeout
    /\ LET c == cl[k]
           t == [c EXCEPT !.telnet = CASE tn = "refused" -> c.telnet
                                       [] tn = "no_banner" -> FALSE
                                       [] OTHER -> TRUE]
       IN cl' = [cl EXCEPT ![k] =
                   IF c.helper # "running"
                   THEN FailLocal(c, "exited", dies, fails)
                   ELSE IF tn = "banner"
                   THEN Ended([t EXCEPT !.attached_pid = 1, !.process = TRUE,
                                        !.buffer = @ \cup {"prompt"}], "ok")
                   ELSE IF tn = "decode_error"
                   THEN Ended(Disconnected(t, fails), "exception")
                   ELSE IF has_err
                   THEN FailLocal([t EXCEPT !.buffer = @ \cup {"error"}],
                                  "error", dies, fails)
                   ELSE t]
    /\ UNCHANGED <<poolState, ctorVars, validVars, xVars, toolVars>>

\* arthas.py:265 and 300-309: the 30 s are over
attach_local_timeout(k, dies, fails) ==
    /\ cl[k].pc = "local_poll"
    /\ ~(cl[k].elapsed < attach_timeout)
    /\ cl' = [cl EXCEPT ![k] = FailLocal(cl[k], "timeout", dies, fails)]
    /\ UNCHANGED <<poolState, ctorVars, validVars, xVars, toolVars>>

\* arthas.py:335-381: _disconnect called on a client from outside (the pool's
\* _remove_connection and shutdown, tearDown, __del__)
disconnect(k, fails) ==
    /\ cl[k].pc = "idle"
    /\ cl[k].disc_calls < MaxDisconnects
    /\ cl' = [cl EXCEPT ![k] = [Disconnected(cl[k], fails) EXCEPT !.disc_calls = @ + 1]]
    /\ UNCHANGED <<poolState, ctorVars, validVars, xVars, toolVars>>

TelnetOutcomes == {"refused", "eof", "no_banner", "banner", "decode_error"}

ClientNext ==
    \/ \E k \in Clients, ok \in BOOLEAN, fails \in BOOLEAN :
          attach_to_process(k, ok, fails)
    \/ \E k \in Clients, m \in SUBSET Markers, raises \in BOOLEAN, fails \in BOOLEAN :
          attach_ssh_recv(k, m, raises, fails)
    \/ \E k \in Clients : attach_tick(k)
    \/ \E k \in Clients, fails \in BOOLEAN : attach_ssh_timeout(k, fails)
    \/ \E k \in Clients, m \in StdoutMarkers : helper_emits(k, m)
    \/ \E k \in Clients : helper_exits(k)
    \/ \E k \in Clients, tn \in TelnetOutcomes, has_err \in BOOLEAN,
            dies \in BOOLEAN, fails \in BOOLEAN :
          attach_local_poll(k, tn, has_err, dies, fails)
    \/ \E k \in Clients, dies \in BOOLEAN, fails \in BOOLEAN :
          attach_local_timeout(k, dies, fails)
    \/ \E k \in Clients, fails \in BOOLEAN : disconnect(k, fails)

ClientSpec == ClientInit /\ [][ClientNext]_vars

(***************************************************************************)
(* ArthasConfig (config.py): the registry command_timeouts, the two ways   *)
(* an entry gets into it, and the lookup get_command_config.  A command    *)
(* string is a sequence of words and whitespace runs.                      *)
(***************************************************************************)

RestQuiet == PoolQuiet /\ CtorQuiet /\ ValidQuiet /\ XQuiet /\ ClientQuiet

\* the command strings: no two words without whitespace between them
CommandStrings ==
    {c \in UNION {[1..n -> Words \cup {Space}] : n \in 0..MaxCmdLen} :
        \A i \in 1..(Len(c) - 1) : c[i] = Space \/ c[i + 1] = Space}

\* str.split(): the words, without the whitespace
Split(c) == SelectSeq(c, LAMBDA w : w # Space)

\* str.lower()
Lower(w) == IF w = "THREAD" THEN "thread" ELSE w

ConfigInit == RestQuiet /\ ConfigQuiet /\ CommandQuiet /\ ClassInfoQuiet

\* config.py:87-89 ArthasConfig.load: an entry of the file is stored under its
\* key as written
load_entry(k, t) ==
    /\ cfg' = [command_timeouts |->
                  [j \in DOMAIN cfg.command_timeouts \cup {k} |->
                      IF j = k THEN CommandConfig(k, t) ELSE cfg.command_timeouts[j]],
               command |-> <<>>, arg |-> <<>>, outcome |-> "none", result |-> NoConfig]
    /\ UNCHANGED <<poolState, ctorVars, validVars, xVars, clientVars, bc, ci>>

\* config.py:150-158 update_command_config: the key is lower-cased
update_command_config(k, t) ==
    /\ cfg' = [command_timeouts |->
                  [j \in DOMAIN cfg.command_timeouts \cup {Lower(k)} |->
                      IF j = Lower(k) THEN CommandConfig(k, t)
                      ELSE cfg.command_timeouts[j]],
               command |-> <<>>, arg |-> <<>>, outcome |-> "none", result |-> NoConfig]
    /\ UNCHANGED <<poolState, ctorVars, validVars, xVars, clientVars, bc, ci>>

\* config.py:147 without the lower(): the name is the leading word as written
cmd_name_NoLower(command) == Split(command)[1]

\* config.py:147: cmd_name = command.split()[0].lower()
cmd_name(command) == Lower(Split(command)[1])

\* config.py:136-148 get_command_config, for a string with a word:
\* command_timeouts.get(cmd_name, command_timeouts['default'])
GetCommandConfig(registry, command) ==
    IF cmd_name(command) \in DOMAIN registry THEN registry[cmd_name(command)]
    ELSE registry["default"]

\* the lookup of the string arg, made for the command c; split()[0] of a
\* string without a word raises IndexError
LookedUpAs(c, arg) ==
    [cfg EXCEPT !.command = c, !.arg = arg,
                !.outcome = IF Split(arg) = <<>> THEN "IndexError" ELSE "returned",
                !.result = IF Split(arg) = <<>> THEN NoConfig
                           ELSE GetCommandConfig(cfg.command_timeouts, arg)]

\* config.py:136-148 get_command_config(command)
get_command_config(c) ==
    /\ cfg' = LookedUpAs(c, c)
    /\ UNCHANGED <<poolState, ctorVars, validVars, xVars, clientVars, bc, ci>>

\* arthas.py:421-422 _execute_command_internal: the lookup is given
\* command.split()[0], which raises IndexError itself without a word
execute_lookup(c) ==
    /\ cfg' = IF Split(c) = <<>>
              THEN [cfg EXCEPT !.command = c, !.arg = <<>>, !.outcome = "IndexError",
                               !.result = NoConfig]
              ELSE LookedUpAs(c, <<Split(c)[1]>>)
    /\ UNCHANGED <<poolState, ctorVars, validVars, xVars, clientVars, bc, ci>>

ConfigNext ==
    \/ \E k \in Words, t \in Timeouts : load_entry(k, t)
    \/ \E k \in Words, t \in Timeouts : update_command_config(k, t)
    \/ \E c \in CommandStrings : get_command_config(c)
    \/ \E c \in CommandStrings : execute_lookup(c)

ConfigSpec == ConfigInit /\ [][ConfigNext]_vars

(***************************************************************************)
(* BaseCommand.execute (native/base.py:235-260).  The hooks, get_command,  *)
(* the executor and the formatter belong to subclasses and collaborators:  *)
(* each of them returns or raises.                                         *)
(***************************************************************************)

CommandInit == RestQuiet /\ ConfigQuiet /\ CommandQuiet /\ ClassInfoQuiet

\* base.py:210-216 set_timeout, between two calls of execute; the record of
\* the last call is dropped
set_timeout(t) ==
    /\ bc.pc \in {"idle", "done"}
    /\ bc' = [timeout |-> t, pc |-> "idle", calls |-> <<>>, command |-> "",
              run_args |-> <<>>, result |-> "none", formatted |-> "none",
              ret |-> "none", raised |-> "none"]
    /\ UNCHANGED <<poolState, ctorVars, validVars, xVars, clientVars, cfg, ci>>

\* base.py:235-241 execute is called
execute_call ==
    /\ bc.pc \in {"idle", "done"}
    /\ bc' = [timeout |-> bc.timeout, pc |-> "pre_execute", calls |-> <<>>,
              command |-> "", run_args |-> <<>>, result |-> "none",
              formatted |-> "none", ret |-> "none", raised |-> "none"]
    /\ UNCHANGED <<poolState, ctorVars, validVars, xVars, clientVars, cfg, ci>>

\* base.py:254-260: the step raised; execute returns the failure dictionary
Failure(c, step) ==
    [c EXCEPT !.pc = "done", !.calls = Append(c.calls, step), !.raised = step,
              !.ret = "failure"]

\* the step returned; execute goes on at next
Called(c, step, next) == [c EXCEPT !.pc = next, !.calls = Append(c.calls, step)]

\* base.py:242 self.pre_execute(*args, **kwargs)
execute_pre(raises) ==
    /\ bc.pc = "pre_execute"
    /\ bc' = IF raises THEN Failure(bc, "pre_execute")
             ELSE Called(bc, "pre_execute", "get_command")
    /\ UNCHANGED <<poolState, ctorVars, validVars, xVars, clientVars, cfg, ci>>

\* base.py:244 command = self.get_command(*args, **kwargs)
execute_get_command(c, raises) ==
    /\ bc.pc = "get_command"
    /\ bc' = IF raises THEN Failure(bc, "get_command")
             ELSE [Called(bc, "get_command", "run") EXCEPT !.command = c]
    /\ UNCHANGED <<poolState, ctorVars, validVars, xVars, clientVars, cfg, ci>>

\* base.py:245 with the timeout left out: executor.run(command)
RunArgs_NoTimeout(c) == <<c.command, 0>>

\* base.py:245: self.executor.run(command, timeout=self.timeout)
RunArgs(c) == <<c.command, c.timeout>>

execute_run(success, raises) ==
    /\ bc.pc = "run"
    /\ bc' = IF raises THEN [Failure(bc, "run") EXCEPT !.run_args = RunArgs(bc)]
             ELSE [Called(bc, "run", "post_execute") EXCEPT
                      !.run_args = RunArgs(bc),
                      !.result = IF success THEN "ok" ELSE "failed"]
    /\ UNCHANGED <<poolState, ctorVars, validVars, xVars, clientVars, cfg, ci>>

\* base.py:247 self.post_execute(result, *args, **kwargs)
execute_post(raises) ==
    /\ bc.pc = "post_execute"
    /\ bc' = IF raises THEN Failure(bc, "post_execute")
             ELSE Called(bc, "post_execute", "format")
    /\ UNCHANGED <<poolState, ctorVars, validVars, xVars, clientVars, cfg, ci>>

\* base.py:249-252 with the formatter kept for successful results only
Formats_OnlySuccess(result) == result = "ok"

\* base.py:249-252: a failed result is logged; the formatter is called "无论成功与否"
Formats(result) == TRUE

\* base.py:249-252 return self.formatter.format(result)
execute_format(raises) ==
    /\ bc.pc = "format"
    /\ bc' = IF ~Formats(bc.result) THEN [bc EXCEPT !.pc = "done", !.ret = "failure"]
             ELSE IF raises THEN [Failure(bc, "format") EXCEPT !.formatted = bc.result]
             ELSE [Called(bc, "format", "done") EXCEPT !.formatted = bc.result,
                                                        !.ret = "formatted"]
    /\ UNCHANGED <<poolState, ctorVars, validVars, xVars, clientVars, cfg, ci>>

CommandNext ==
    \/ \E t \in CommandTimeouts : set_timeout(t)
    \/ execute_call
    \/ \E raises \in BOOLEAN : execute_pre(raises)
    \/ \E c \in CommandLines, raises \in BOOLEAN : execute_get_command(c, raises)
    \/ \E success \in BOOLEAN, raises \in BOOLEAN : execute_run(success, raises)
    \/ \E raises \in BOOLEAN : execute_post(raises)
    \/ \E raises \in BOOLEAN : execute_format(raises)

CommandSpec == CommandInit /\ [][CommandNext]_vars

(***************************************************************************)
(* ClassInfoCoordinator (native/tools/class_info.py): the sequential       *)
(* get_class_info as a function of its arguments and of what jmap and      *)
(* javap answer, and get_class_info_parallel with its worker threads.      *)
(***************************************************************************)

\* class_info.py:110-144 _filter_classes: no pattern keeps the histogram; a
\* pattern without wildcard keeps the rows of that class
filter_classes(histogram, pattern) ==
    IF pattern = "" THEN histogram
    ELSE SelectSeq(histogram, LAMBDA row : row = pattern)

\* class_info.py:63-67: max_matches (0 is None) cuts the list
Limited(rows, max_matches) == max_matches # 0 /\ Len(rows) > max_matches

LimitedRows(rows, max_matches) ==
    IF Limited(rows, max_matches) THEN SubSeq(rows, 1, max_matches) ELSE rows

\* class_info.py:146-205 _get_structure_info: None for an array or primitive
\* type, for a failed javap result and for any exception, else the class_info
\* of the class
get_structure_info(class_name, javap) ==
    IF class_name = "[B" THEN Absent
    ELSE IF javap[class_name] = "info" THEN class_name
    ELSE Absent

\* class_info.py:72-79 with rank left out of the dict
ClassInfo_NoRank(class_name, rank, structure_info) ==
    [class_name |-> class_name, rank |-> 0, structure_info |-> structure_info]

\* class_info.py:72-91: the dict of a class: its name, its runtime_info (the
\* histogram's numbers go with the name; rank is the position) and, when there
\* is one, its structure_info
ClassInfo(class_name, rank, structure_info) ==
    [class_name |-> class_name, rank |-> rank, structure_info |-> structure_info]

\* class_info.py:25-108 get_class_info for a histogram that jmap delivered
ClassesInfo(histogram, javap, pattern, max_matches, show_detail) ==
    LET rows == LimitedRows(filter_classes(histogram, pattern), max_matches)
    IN  [i \in 1..Len(rows) |->
            ClassInfo(rows[i], i,
                      IF show_detail THEN get_structure_info(rows[i], javap)
                      ELSE Absent)]

\* class_info.py:25-108 get_class_info: the returned dictionary
get_class_info(histogram, javap, jmap_ok, pattern, max_matches, show_detail) ==
    IF ~jmap_ok THEN [success |-> FALSE, classes |-> <<>>, limited_by_max |-> FALSE]
    ELSE [success |-> TRUE,
          classes |-> ClassesInfo(histogram, javap, pattern, max_matches, show_detail),
          limited_by_max |-> Limited(filter_classes(histogram, pattern), max_matches)]

ClassInfoInit ==
    /\ RestQuiet /\ ConfigQuiet /\ CommandQuiet
    /\ \E histogram \in UNION {[1..n -> ClassNames] : n \in 0..MaxClasses},
          javap \in [ClassNames -> JavapOutcomes],
          jmap_ok \in BOOLEAN, pattern \in {"", "A"}, max_matches \in {0, 2},
          max_workers \in 1..MaxWorkers, show_detail \in BOOLEAN :
          /\ javap["[B"] = "failed"
          /\ ci = NewCall(histogram, javap, jmap_ok, pattern, max_matches,
                          max_workers, show_detail)

\* class_info.py:225-248: without show_detail the sequential result is
\* returned; else the base result is computed without detail, returned when
\* it failed or has no classes, and else handed to the workers
get_class_info_parallel ==
    /\ ci.pc = "idle"
    /\ LET r == get_class_info(ci.histogram, ci.javap, ci.jmap_ok, ci.pattern,
                               ci.max_matches, ci.show_detail)
           base == get_class_info(ci.histogram, ci.javap, ci.jmap_ok, ci.pattern,
                                  ci.max_matches, FALSE)
       IN  ci' = IF ~ci.show_detail
                 THEN [ci EXCEPT !.pc = "done", !.classes = r.classes,
                                 !.success = r.success,
                                 !.limited_by_max = r.limited_by_max]
                 ELSE [ci EXCEPT !.pc = IF base.success /\ base.classes # <<>>
                                        THEN "workers" ELSE "done",
                                 !.classes = base.classes,
                                 !.success = base.success,
                                 !.limited_by_max = base.limited_by_max,
                                 !.worker = [i \in 1..Len(base.classes) |-> "submitted"],
                                 !.found = [i \in 1..Len(base.classes) |-> <<0, Absent>>]]
    /\ UNCHANGED <<poolState, ctorVars, validVars, xVars, clientVars, cfg, bc>>

Running == {i \in 1..Len(ci.worker) : ci.worker[i] = "running"}

\* class_info.py:285-290: a thread of the executor takes a submitted task, in
\* the order of submission, when fewer than max_workers tasks are running
worker_start(i) ==
    /\ ci.pc = "workers"
    /\ i \in 1..Len(ci.worker) /\ ci.worker[i] = "submitted"
    /\ \A j \in 1..(i - 1) : ci.worker[j] # "submitted"
    /\ Cardinality(Running) < ci.max_workers
    /\ ci' = [ci EXCEPT !.worker[i] = "running"]
    /\ UNCHANGED <<poolState, ctorVars, validVars, xVars, clientVars, cfg, bc>>

\* list.index(x): the first position whose element equals x
ListIndex(list, x) == CHOOSE i \in 1..Len(list) :
                         list[i] = x /\ \A j \in 1..(i - 1) : list[j] # x

\* class_info.py:278-282 get_single_structure: the structure of the class and
\* classes_info.index(class_info), as the list is at that moment
worker_finish(i) ==
    /\ ci.pc = "workers"
    /\ i \in 1..Len(ci.worker) /\ ci.worker[i] = "running"
    /\ ci' = [ci EXCEPT !.worker[i] = "completed",
                        !.found[i] = <<ListIndex(ci.classes, ci.classes[i]),
                                       get_structure_info(ci.classes[i].class_name,
                                                          ci.javap)>>]
    /\ UNCHANGED <<poolState, ctorVars, validVars, xVars, clientVars, cfg, bc>>

\* class_info.py:293-300: as_completed hands over a completed future; its
\* structure_info, when there is one, is stored at its index
collect(i) ==
    /\ ci.pc = "workers"
    /\ i \in 1..Len(ci.worker) /\ ci.worker[i] = "completed"
    /\ ci' = [ci EXCEPT !.worker[i] = "collected",
                        !.classes = IF ci.found[i][2] # Absent
                                    THEN [@ EXCEPT ![ci.found[i][1]].structure_info =
                                                       ci.found[i][2]]
                                    ELSE @]
    /\ UNCHANGED <<poolState, ctorVars, validVars, xVars, clientVars, cfg, bc>>

\* class_info.py:250-256: every future was collected; the result is returned
parallel_return ==
    /\ ci.pc = "workers"
    /\ \A i \in 1..Len(ci.worker) : ci.worker[i] = "collected"
    /\ ci' = [ci EXCEPT !.pc = "done"]
    /\ UNCHANGED <<poolState, ctorVars, validVars, xVars, clientVars, cfg, bc>>

ClassInfoNext ==
    \/ get_class_info_parallel
    \/ \E i \in 1..MaxClasses : worker_start(i)
    \/ \E i \in 1..MaxClasses : worker_finish(i)
    \/ \E i \in 1..MaxClasses : collect(i)
    \/ parallel_return

ClassInfoSpec == ClassInfoInit /\ [][ClassInfoNext]_vars

\* what a thread that has started an operation does next; starting an operation
\* (Acquire, shutdown_signal) is the environment's choice
Progress(t) ==
    \/ get_connection_init(t)
    \/ get_connection_loop(t)
    \/ get_connection_pop(t)
    \/ get_connection_validate(t)
    \/ remove_connection(t)
    \/ get_connection_lock(t)
    \/ get_connection_attach(t)
    \/ get_connection_timeout(t)
    \/ return_connection(t)
    \/ health_check_loop(t)
    \/ check_all_connections_lock(t)
    \/ check_all_connections_iter(t)
    \/ check_all_connections_validate(t)
    \/ shutdown_clear(t)

\* every thread that can run is scheduled, a thread waiting for the lock gets it
\* if it is free again and again, and the clock advances
FairSpec ==
    /\ Spec
    /\ WF_vars(Tick)
    /\ \A t \in Threads : SF_vars(Progress(t))

(***************************************************************************)
(* Properties                                                              *)
(***************************************************************************)

\* caller t owns connection c: get_connection returned it to t and t's
\* return_connection has not finished
Held(t, c) == t \in Callers /\ pc[t] \in {"holding", "rc_remove"} /\ conn[t] = c

InGetConnection(t) ==
    pc[t] \in {"gc_init", "gc_loop", "gc_pop", "gc_validate", "gc_remove",
               "gc_lock", "gc_attach"}

\* C1: for every key, in every reachable state, the number of connections
\* tracked in _connections[key] never exceeds max_size.
C1_PoolNeverOverProvisions ==
    \A p \in DOMAIN connections : Len(connections[p]) <= max_size

\* a key is at capacity while another caller is inside get_connection for it
C1_Witness ==
    \E p \in DOMAIN connections :
        /\ Len(connections[p]) = max_size
        /\ \E t \in Callers : pc[t] = "gc_lock" /\ pid[t] = p

\* C2: no two callers own the same connection at the same time, and a busy
\* connection is owned by exactly one caller.
C2_ExclusiveOwnership ==
    \A c \in DOMAIN sess :
        /\ Cardinality({t \in Callers : Held(t, c)}) <= 1
        /\ sess[c].is_busy => \E t \in Callers : Held(t, c)

\* a caller owns a connection it took from the idle queue while the other
\* caller is popping from the same key's queue
C2_Witness ==
    \E t1, t2 \in Callers :
        /\ t1 # t2
        /\ pc[t1] = "holding" /\ sess[conn[t1]].last_used_at > sess[conn[t1]].created_at
        /\ pc[t2] = "gc_pop" /\ pid[t2] = sess[conn[t1]].pid

\* the next step of t is the acquisition of the pool lock
WaitsForLock(t) ==
    \/ pc[t] \in {"gc_init", "gc_lock", "gc_remove", "rc_remove", "hc_remove", "hc_lock"}
    \/ pc[t] = "sd_join" /\ pc[HC] = "hc_done"

\* C3: no pool operation deadlocks on the pool lock: no thread ever waits for
\* the pool lock while it is itself the thread that holds it (return_connection
\* of an invalid connection, a sweep that evicts or probes, shutdown).
C3_NoSelfDeadlock ==
    \A t \in Threads : ~(lock = t /\ WaitsForLock(t))

\* C4: every get_connection call terminates: it returns a connection or raises
\* TimeoutError (the clock of the model can still reach the call's deadline).
C4_AcquireTerminates ==
    \A t \in Callers :
        (pc[t] = "gc_init" /\ start_time[t] + connection_timeout <= MaxTime)
            ~> (pc[t] \in {"holding", "timed_out"})

\* c is in the list of its key
Tracked(c) ==
    sess[c].pid \in DOMAIN connections /\ InSeq(connections[sess[c].pid], c)

\* c is in the idle queue of some key
Queued(c) == \E p \in DOMAIN available : InSeq(available[p], c)

\* C5: a busy connection is in no idle queue, a queued connection is not busy,
\* and a tracked, valid connection that is not busy is in its key's idle queue.
C5_BusyIffNotAvailable ==
    \A c \in DOMAIN sess :
        /\ sess[c].is_busy => ~Queued(c)
        /\ Queued(c) => ~sess[c].is_busy
        /\ (Tracked(c) /\ is_connection_valid(sess[c], now) /\ ~sess[c].is_busy)
              => InSeq(available[sess[c].pid], c)

\* C6: for every key, every connection in the idle queue is tracked in the
\* key's list.
C6_AvailableSubsetOfAll ==
    \A p \in DOMAIN available :
        \A i \in 1..Len(available[p]) :
            p \in DOMAIN connections /\ InSeq(connections[p], available[p][i])

\* the sweep has passed the busy test of line 243 for c and is validating,
\* evicting or probing it
HealthChecking(c) ==
    conn[HC] = c /\ pc[HC] \in {"hc_validate", "hc_remove", "gc_init"}

\* C7: a connection is never owned by a caller while the sweep is validating,
\* probing or evicting it.
C7_NoHealthCheckOfOwned ==
    \A c \in DOMAIN sess : ~(HealthChecking(c) /\ \E t \in Callers : Held(t, c))

\* the sessions created for key p
SessionsOf(p) == {c \in DOMAIN sess : sess[c].pid = p}

\* Scenario A as far as it has been played: max_size is 1, shutdown was not
\* called, no connection was destroyed and none is past its bounds
ScenarioA ==
    /\ max_size = 1
    /\ ~stop
    /\ \A c \in DOMAIN sess :
          ~sess[c].disconnected /\ is_connection_valid(sess[c], now)

\* C8: Scenario A: with max_size = 1 one connection is created for the key, at
\* most one caller owns it, no second one is created, and a concurrent second
\* get_connection ends by returning that connection or raising TimeoutError.
C8_ScenarioA ==
    /\ [](ScenarioA =>
            \A p \in Pids :
                /\ Cardinality(SessionsOf(p)) <= 1
                /\ Cardinality({t \in Callers :
                        \E c \in SessionsOf(p) : Held(t, c)}) <= 1)
    /\ \A t \in Callers :
          (ScenarioA /\ pc[t] = "gc_init"
                     /\ start_time[t] + connection_timeout <= MaxTime)
             ~> (pc[t] \in {"holding", "timed_out"} \/ ~ScenarioA)

\* nothing but caller t is active on the pool
Quiet(t) ==
    /\ \A u \in Callers \ {t} : pc[u] = "idle"
    /\ lock = NoThread
    /\ pc[Main] # "sd_join"

\* caller t is inside get_connection before its deadline, nothing else is
\* active, and c is valid and either the only idle connection of the key or
\* the one t has just popped
OnTrack(t, c) ==
    /\ Quiet(t)
    /\ is_connection_valid(sess[c], now)
    /\ now - start_time[t] < connection_timeout
    /\ \/ /\ pc[t] \in {"gc_init", "gc_loop", "gc_pop"}
          /\ pid[t] \in DOMAIN available
          /\ available[pid[t]] = <<c>>
       \/ pc[t] = "gc_validate" /\ conn[t] = c

\* as OnTrack, with c the connection that was released last, whatever else is
\* idle in the queue
OnTrackLastReleased(t, c) ==
    /\ Quiet(t)
    /\ is_connection_valid(sess[c], now)
    /\ now - start_time[t] < connection_timeout
    /\ \/ /\ pc[t] \in {"gc_init", "gc_loop", "gc_pop"}
          /\ pid[t] \in DOMAIN available
          /\ available[pid[t]] # <<>>
          /\ available[pid[t]][Len(available[pid[t]])] = c
       \/ pc[t] = "gc_validate" /\ conn[t] = c

\* C9 as stated: the get_connection that follows the release of c, with nothing
\* else active and c within its bounds, returns c and creates no connection.
C9_Original ==
    [][\A t \in Callers, c \in DOMAIN sess :
          (OnTrackLastReleased(t, c) /\ pc'[t] # pc[t]) =>
             /\ Len(sess') = Len(sess)
             /\ \/ OnTrackLastReleased(t, c)'
                \/ pc'[t] = "holding" /\ conn'[t] = c]_vars

\* C9 (amended): when c is the only idle connection of the key, nothing else is
\* active and c is within its bounds, every step of get_connection keeps to the
\* path that ends by returning c, marked busy, and creates no connection.
C9_RoundTripReuse ==
    [][\A t \in Callers, c \in DOMAIN sess :
          (OnTrack(t, c) /\ pc'[t] # pc[t]) =>
             /\ Len(sess') = Len(sess)
             /\ \/ OnTrack(t, c)'
                \/ pc'[t] = "holding" /\ conn'[t] = c /\ sess'[c].is_busy]_vars

\* a caller owns again, with nothing else active, the connection it released
\* before: the connection was reused, not created by this call
C9_Witness ==
    \E t \in Callers :
        /\ pc[t] = "holding" /\ Quiet(t)
        /\ Len(sess) = 1
        /\ sess[conn[t]].is_busy
        /\ sess[conn[t]].last_used_at > sess[conn[t]].created_at

\* C10: return_connection of an invalid connection disconnects it, removes it
\* from the key's list, does not queue it, and returns; return_connection of a
\* valid one clears is_busy, stamps last_used_at and puts it at the end of the
\* key's queue.
C10_ReleaseRevalidates ==
    /\ \A t \in Callers, c \in 1..MaxSessions :
          (pc[t] = "rc_remove" /\ conn[t] = c)
             ~> (/\ c \in DOMAIN sess
                 /\ sess[c].disconnected /\ ~Tracked(c) /\ ~Queued(c)
                 /\ pc[t] = "idle")
    /\ [][\A t \in Callers :
            (pc[t] = "holding" /\ pc'[t] = "idle"
                /\ sess[conn[t]].pid \in DOMAIN available) =>
               LET c == conn[t]
                   q == available'[sess[c].pid]
               IN /\ ~sess'[c].is_busy
                  /\ sess'[c].last_used_at = now
                  /\ q # <<>> /\ q[Len(q)] = c]_vars

\* t is inside blocking channel I/O: the attach handshake of _create_connection
InChannelIO(t) == pc[t] = "gc_attach"

\* the key a thread that waits for the lock is working on
KeyOf(t) == IF pc[t] \in {"gc_init", "gc_lock"} THEN pid[t] ELSE sess[conn[t]].pid

\* C11: the pool lock is never held by a thread that is inside blocking channel
\* I/O, and a thread inside channel I/O for one key never keeps a thread that
\* works on another key waiting for the lock.
C11_NoLockAcrossIO ==
    \A t \in Threads :
        InChannelIO(t) =>
            /\ lock # t
            /\ \A u \in Callers \ {t} :
                  (pc[u] \in {"gc_init", "gc_lock", "gc_remove"} /\ KeyOf(u) # pid[t])
                      => CanLock(u)

\* C13: every connection the pool has created is tracked in its key's list or
\* has been disconnected.
C13_NoSessionLeak ==
    \A c \in DOMAIN sess : Tracked(c) \/ sess[c].disconnected

\* C14: when shutdown returns, the health-check thread has terminated, every
\* connection that was tracked, idle or checked out, is disconnected, and both
\* maps are empty.
C14_ShutdownPostcondition ==
    [][(pc[Main] = "sd_join" /\ pc'[Main] = "sd_done") =>
          /\ pc'[HC] = "hc_done"
          /\ \A c \in DOMAIN sess : Tracked(c) => sess'[c].disconnected
          /\ connections' = <<>>
          /\ available' = <<>>]_vars

\* shutdown has returned and has disconnected a connection that a caller had
\* checked out
C14_Witness ==
    /\ pc[Main] = "sd_done"
    /\ \E c \in DOMAIN sess, t \in Callers :
          Held(t, c) /\ sess[c].is_busy /\ sess[c].disconnected

\* C15: once the stop signal is set the health-check loop starts no further
\* sweep and terminates, whether it was waiting or in the middle of a sweep.
C15_ShutdownPrompt ==
    /\ [][(stop /\ pc[HC] = "hc_loop") => pc'[HC] # "hc_lock"]_vars
    /\ stop ~> (pc[HC] = "hc_done")

\* c is not busy and was last used more than idle_timeout ago
IdleExpired(c) == ~sess[c].is_busy /\ now - sess[c].last_used_at > idle_timeout

\* C16: Scenario B: an idle-expired connection that the sweep reaches is
\* disconnected and removed from its key's list, and no get_connection returns a
\* connection that was idle-expired when it was taken.
C16_ScenarioB ==
    /\ \A c \in 1..MaxSessions :
          (pc[HC] = "hc_remove" /\ conn[HC] = c /\ IdleExpired(c))
             ~> (c \in DOMAIN sess /\ sess[c].disconnected /\ ~Tracked(c))
    /\ [][\A t \in Callers :
            (pc[t] # "holding" /\ pc'[t] = "holding" /\ conn'[t] \in DOMAIN sess)
               => ~IdleExpired(conn'[t])]_vars

\* C17: the sweep probes every non-busy valid connection and accounts for the
\* outcome (health_check_count is incremented and failed_count reset on
\* success, failed_count incremented on failure), and outside a sweep no
\* tracked connection has failed_count above the threshold.
C17_FailureAccounting ==
    /\ \A c \in 1..MaxSessions :
          (pc[HC] = "gc_init" /\ conn[HC] = c)
             ~> (c \in DOMAIN sess /\
                   (sess[c].health_check_count > 0 \/ sess[c].failed_count > 0))
    /\ [](lock # HC =>
            \A c \in DOMAIN sess :
                Tracked(c) => sess[c].failed_count <= failure_threshold)

\* C12: every construction call returns the same pool object and at most one
\* health-check thread is ever started.
C12_ConstructionIdempotent ==
    /\ hc_threads <= 1
    /\ \A k \in Constructors : ct_ret[k] \in {0, instance}

Age == v_now - v_conn.created_at
IdleTime == v_now - v_conn.last_used_at

\* C18 as stated: the result is valid iff age < max_lifetime, and busy or
\* idle time < idle_timeout, and failed_count <= the threshold.
C18_Original ==
    v_result # "none" =>
        (v_result = "valid" <=>
            /\ Age < max_lifetime
            /\ (v_conn.is_busy \/ IdleTime < idle_timeout)
            /\ v_conn.failed_count <= failure_threshold)

\* C18: the result is valid iff age <= max_lifetime, and busy or idle
\* time <= idle_timeout, and failed_count <= the threshold.
C18_ValidityPredicate ==
    v_result # "none" =>
        (v_result = "valid" <=>
            /\ Age <= max_lifetime
            /\ (v_conn.is_busy \/ IdleTime <= idle_timeout)
            /\ v_conn.failed_count <= failure_threshold)

\* the function has been applied at both boundaries: age = max_lifetime and,
\* not busy, idle time = idle_timeout
C18_Witness ==
    /\ v_result = "valid"
    /\ Age = max_lifetime
    /\ ~v_conn.is_busy
    /\ IdleTime = idle_timeout

\* C19: a connection on which a command failed with a channel error and that
\* its caller has let go of is disconnected, is in no key's list and in no
\* queue of idle connections.
C19_ChannelErrorDestroys ==
    \A c \in DOMAIN sess :
        (sess[c].channel_broken /\ ~\E t \in Callers : Held(t, c))
            => (sess[c].disconnected /\ ~Tracked(c) /\ ~Queued(c))

\* C20: after a read raised while output was accumulated, the call does not
\* return a success result, the command line is not written again, and the
\* call ends with the channel torn down.
C20_ReadErrorSurfaced ==
    /\ [](x_chan_error => x_result # "success")
    /\ [][x_chan_error => x_sends' = x_sends]_vars
    /\ []((x_chan_error /\ x_pc = "x_done") => ~x_open)

\* C21: with max_retries = N the command line is written at most N times,
\* nothing more is done after the first attempt that succeeds, every further
\* attempt is preceded by a wait of retry_interval, and a call that succeeds
\* after k attempts that ended in an exception has made exactly k+1 attempts.
C21_BoundedRetry ==
    /\ [](x_sends <= x_max_retries)
    /\ [](x_result = "success" => x_retry + 1 = x_failed + 1)
    /\ [](x_waited = x_retry * retry_interval)
    /\ [][x_result = "success" => UNCHANGED xVars]_vars
    /\ [][x_retry' # x_retry =>
            (x_retry' = x_retry + 1 /\ x_waited' = x_waited + retry_interval)]_vars

\* Scenario C: max_retries = 3, two attempts ended in an exception, the third
\* succeeded
C21_Witness ==
    /\ x_max_retries = 3
    /\ x_failed = 2
    /\ x_sends = 3
    /\ x_waited = 2 * retry_interval
    /\ x_result = "success"

\* C22: an attempt that fails because the session is not established (SSH mode
\* without a channel) is not followed by another attempt.
C22_StructuralNotRetried ==
    (x_ssh /\ ~x_open) => (x_retry = 0 /\ x_failed <= 1)

\* C23: the encoded size of the accumulated output never exceeds the cap, and
\* a call that ends after the output was cut returns a result, not an error.
C23_OutputCap ==
    /\ x_output_size <= max_output_size
    /\ (x_truncated /\ x_pc = "x_done") => x_result = "success"

\* C24: a result is returned only after the prompt was read or the cap was
\* reached, an attempt whose deadline passes without the prompt raises
\* TimeoutError, and an attempt that read the prompt never raises TimeoutError.
C24_PromptOrTimeout ==
    /\ [](x_result = "success" => (x_prompt \/ x_truncated))
    /\ [][(x_pc = "x_recv" /\ ~(x_elapsed < timeout) /\ x_pc' # x_pc)
            => x_pc' = "x_except_timeout"]_vars
    /\ [][(x_pc = "x_post" /\ x_pc' = "x_except_timeout") => ~x_prompt]_vars

\* C27: a get_connection in which creation attempts raised does not end with
\* the generic TimeoutError of line 151.
C27_AttachErrorPropagated ==
    \A t \in Callers : pc[t] = "timed_out" => ~attach_failed[t]

\* C28: a get_connection whose creation attempt raised makes no second
\* creation attempt.
C28_NoSecondAttach ==
    \A t \in Callers : attach_failed[t] => pc[t] # "gc_attach"

\* what the three tests, in the stated order, and the timeout make of a buffer
ExpectedResult(buffer) ==
    IF "denied" \in buffer THEN "denied"
    ELSE IF "error" \in buffer THEN "error"
    ELSE IF "prompt" \in buffer THEN "ok"
    ELSE "timeout"

\* C25: an attach that ended as attached, denied, error or timeout ended with
\* the first of denied, error, attached that the target's output holds, and
\* with timeout only when it holds none of them.
C25_AttachTerminalConditions ==
    \A k \in Clients :
        (cl[k].pc = "idle" /\ cl[k].result \in {"ok", "denied", "error", "timeout"})
            => cl[k].result = ExpectedResult(cl[k].buffer)

\* C26: after an attach that failed the client has no channel, no telnet
\* connection, no running helper process and no attached_pid.
C26_FailedAttachCleansUp ==
    \A k \in Clients :
        (cl[k].pc = "idle" /\
         cl[k].result \in {"denied", "error", "timeout", "exited", "exception"})
            => /\ ~cl[k].channel
               /\ ~cl[k].telnet
               /\ cl[k].helper # "running"
               /\ cl[k].attached_pid = 0

\* the client holds no channel, connection, process or SSH connection
NoRefs(c) == ~c.channel /\ ~c.telnet /\ ~c.process /\ ~c.ssh

\* C29: every _disconnect from outside, in whatever state the client is and
\* whether or not the closes raise, returns and leaves the client without
\* channel, connection and process; on a client that holds none of them it
\* changes nothing; and it changes no other client.
C29_DisconnectIdempotent ==
    [][\A k \in Clients :
         cl'[k].disc_calls = cl[k].disc_calls + 1 =>
            /\ NoRefs(cl'[k])
            /\ cl'[k].pc = "idle"
            /\ NoRefs(cl[k]) => cl'[k] = [cl[k] EXCEPT !.disc_calls = @ + 1]
            /\ \A j \in Clients \ {k} : cl'[j] = cl[j]]_vars

\* a client that was attached has been disconnected twice from outside and
\* another client is attached
C29_Witness ==
    \E k \in Clients, j \in Clients :
        /\ j # k
        /\ cl[k].disc_calls = 2
        /\ cl[k].result = "ok"
        /\ NoRefs(cl[k])
        /\ cl[k].attached_pid = 0
        /\ cl[j].attached_pid = 1
        /\ cl[j].telnet \/ cl[j].channel

\* the client is attached and can execute commands
Ready(c) == c.attached_pid = 1 /\ (c.channel \/ c.telnet)

\* C30: a client on which _disconnect was called from outside is never
\* attached again.
C30_BrokenIsTerminal ==
    \A k \in Clients : cl[k].disc_calls >= 1 => ~Ready(cl[k])

(***************************************************************************)
(* The command registry                                                    *)
(***************************************************************************)

\* a lookup has returned for a command with a leading word
LookedUp == cfg.outcome = "returned"

ExecuteSteps == <<"pre_execute", "get_command", "run", "post_execute", "format">>

\* C32: execute calls pre_execute, get_command, executor.run, post_execute and
\* formatter.format in this order, each at most once and each only when the
\* steps before it returned; run is given the generated command and the
\* configured timeout; when no step raises, format is called once on the
\* result, successful or failed, and its value is returned; when a step raises,
\* execute ends there and returns the failure dictionary
C32_ExecutePipeline ==
    /\ bc.calls = SubSeq(ExecuteSteps, 1, Len(bc.calls))
    /\ bc.run_args # <<>> => bc.run_args = <<bc.command, bc.timeout>>
    /\ bc.pc = "done" =>
         /\ bc.ret \in {"formatted", "failure"}
         /\ bc.raised = "none" =>
              /\ bc.calls = ExecuteSteps
              /\ bc.result \in {"ok", "failed"}
              /\ bc.formatted = bc.result
              /\ bc.ret = "formatted"
         /\ bc.raised # "none" =>
              /\ bc.ret = "failure"
              /\ bc.calls[Len(bc.calls)] = bc.raised
    /\ bc.pc \in {"idle", "pre_execute", "get_command", "run", "post_execute",
                  "format", "done"}

\* execute has returned the formatter's value for a failed result of a run
\* with a timeout
C32_Witness ==
    /\ bc.pc = "done"
    /\ bc.ret = "formatted"
    /\ bc.result = "failed"
    /\ bc.formatted = "failed"
    /\ bc.run_args = <<"jstack 1", 2>>

(***************************************************************************)
(* get_class_info_parallel                                                 *)
(***************************************************************************)

\* what the sequential get_class_info returns for the call's arguments in the
\* call's environment, with show_detail = true
SequentialResult ==
    get_class_info(ci.histogram, ci.javap, ci.jmap_ok, ci.pattern, ci.max_matches, TRUE)

\* C33: with show_detail = true, get_class_info_parallel returns what the
\* sequential get_class_info returns (same success, same classes in the same
\* order with the same runtime_info and structure_info, same limited_by_max)
\* for every order in which the workers complete; while it runs, a
\* structure_info is only ever attached to the class it was computed for, and
\* a class whose worker failed is the only one left without
C33_ParallelEqualsSequential ==
    ci.show_detail =>
        /\ ci.pc = "done" =>
             /\ ci.success = SequentialResult.success
             /\ ci.classes = SequentialResult.classes
             /\ ci.limited_by_max = SequentialResult.limited_by_max
        /\ ci.pc # "idle" =>
             /\ Len(ci.classes) = Len(SequentialResult.classes)
             /\ \A i \in 1..Len(ci.classes) :
                  /\ ci.classes[i].class_name = SequentialResult.classes[i].class_name
                  /\ ci.classes[i].rank = SequentialResult.classes[i].rank
                  /\ ci.classes[i].structure_info \in {Absent, ci.classes[i].class_name}
                  /\ (ci.pc = "workers" /\ ci.worker[i] = "collected") =>
                       ci.classes[i] = SequentialResult.classes[i]

\* two workers at a time have served three classes, two of them rows of the
\* same class that got their structure_info and one whose javap raised
C33_Witness ==
    /\ ci.pc = "done" /\ ci.show_detail /\ ci.max_workers = 2
    /\ Len(ci.classes) = 3
    /\ ci.classes[1].class_name = "A" /\ ci.classes[1].structure_info = "A"
    /\ ci.classes[2].class_name = "B" /\ ci.classes[2].structure_info = Absent
    /\ ci.classes[3].class_name = "A" /\ ci.classes[3].structure_info = "A"
    /\ ci.javap["B"] = "raises"

(***************************************************************************)
(* Acquire and validity                                                    *)
(***************************************************************************)

\* the connection c is in the list of some key
InAll(c, all) == \E p \in DOMAIN all : InSeq(all[p], c)

\* C34: a connection that get_connection returns is valid when it is marked
\* busy (a reused one as it was popped, a new one as it was created); a popped
\* connection that is not valid is not returned but removed: after the removal
\* it is disconnected and in no key's list, and the call goes on to look for
\* room for a new connection
C34_AcquireValidates ==
    [][\A t \in Callers :
         /\ (pc[t] = "gc_validate" /\ pc'[t] = "holding") =>
               /\ is_connection_valid(sess[conn[t]], now)
               /\ sess'[conn'[t]].is_busy /\ conn'[t] = conn[t]
         /\ (pc[t] = "gc_attach" /\ pc'[t] = "holding") =>
               /\ is_connection_valid(sess'[conn'[t]], now')
               /\ sess'[conn'[t]].is_busy
         /\ (pc[t] = "gc_validate" /\ pc'[t] # "gc_validate"
               /\ ~is_connection_valid(sess[conn[t]], now)) => pc'[t] = "gc_remove"
         /\ (pc[t] = "gc_remove" /\ pc'[t] # "gc_remove") =>
               /\ sess'[conn[t]].disconnected
               /\ ~InAll(conn[t], connections')
               /\ pc'[t] = "gc_lock"
         /\ (pc[t] # "holding" /\ pc'[t] = "holding") =>
               pc[t] \in {"gc_validate", "gc_attach"}]_vars

\* with no shutdown, a popped connection was found invalid and destroyed, and
\* a caller holds another connection
C34_Witness ==
    /\ ~stop
    /\ \E t \in Callers, c \in 1..Len(sess) :
          /\ pc[t] = "holding" /\ conn[t] # c
          /\ sess[c].disconnected /\ ~InAll(c, connections)
          /\ sess[conn[t]].created_at > sess[c].created_at

(***************************************************************************)
(* Mutation under the lock                                                 *)
(***************************************************************************)

\* the thread's next step is code inside a `with self._lock` block:
\* connection_pool.py:100-104, 125-139, 155-163, 217-225, 240-256, 264-272
UnderLock(t) ==
    pc[t] \in {"gc_init", "gc_attach", "gc_remove", "holding", "rc_remove",
               "hc_iter", "hc_validate", "hc_remove", "sd_join"}

\* the step changes the maps, or the busy flag, last_used_at or a counter of
\* a connection
MutatesPool ==
    \/ connections' # connections
    \/ available' # available
    \/ \E c \in DOMAIN sess :
          \/ sess'[c].is_busy # sess[c].is_busy
          \/ sess'[c].last_used_at # sess[c].last_used_at
          \/ sess'[c].failed_count # sess[c].failed_count
          \/ sess'[c].health_check_count # sess[c].health_check_count

\* C35: every step that changes the pool's maps or a connection's busy flag,
\* last_used_at or counters is taken by a thread that is inside a block
\* guarded by the pool lock
C35_MutationUnderLock ==
    [][MutatesPool => \E t \in Threads : pc'[t] # pc[t] /\ UnderLock(t)]_vars

(***************************************************************************)
(* Waiters                                                                 *)
(***************************************************************************)

\* caller t polls in get_connection for a key that is at capacity, and its
\* deadline has not come
Waiting(t) ==
    /\ pc[t] \in {"gc_loop", "gc_pop", "gc_lock"}
    /\ now - start_time[t] < connection_timeout
    /\ pid[t] \in DOMAIN connections
    /\ Len(connections[pid[t]]) = max_size

\* a valid connection of key p was returned and is in the idle queue
Freed(p) ==
    \E c \in DOMAIN sess :
        /\ p \in DOMAIN available /\ InSeq(available[p], c)
        /\ Tracked(c) /\ ~sess[c].disconnected
        /\ is_connection_valid(sess[c], now)

\* C36: when a caller waits for a key at capacity and a valid connection of the
\* key has been returned before the caller's deadline, then, every thread
\* being scheduled fairly, eventually some caller obtains a connection
C36_WaiterServed ==
    (\E t \in Callers : Waiting(t) /\ Freed(pid[t]))
        ~> (\E t \in Callers : pc[t] = "holding")

(***************************************************************************)
(* First construction wins                                                 *)
(***************************************************************************)

\* C37: once the pool is constructed it stays constructed, and from then on no
\* construction call, whatever its arguments, gets into the body of __init__;
\* nothing but that body changes the pool's configuration, empties its maps or
\* starts a health-check thread
C37_FirstConstructionWins ==
    [][/\ initialized => initialized'
       /\ \A k \in Constructors :
            (ct_pc[k] # "ct_body" /\ ct_pc'[k] = "ct_body") => ~initialized
       /\ (\A k \in Constructors : ct_pc[k] # "ct_body") =>
            /\ pool_max_size' = pool_max_size
            /\ hc_threads' = hc_threads
            /\ pool_tracked => pool_tracked']_vars

\* the only thread that ever constructed has made its second call, with
\* another size, on the pool that is in use
C37_Witness ==
    /\ initialized /\ pool_tracked /\ hc_threads = 1
    /\ ct_calls = 2
    /\ ct_pc["k2"] = "idle" /\ ct_ret["k2"] = 0
    /\ ct_pc["k1"] = "ct_check" /\ ~ct_via["k1"]
    /\ ct_arg["k1"] # pool_max_size

(***************************************************************************)
(* Execute on a client that is not attached                                *)
(***************************************************************************)

\* C38: while the client has no channel and no telnet connection, Execute
\* opens none and writes no command line, and it does not end in success
C38_ExecuteOnlyWhenAttached ==
    [][~x_open => (/\ ~x_open'
                   /\ x_sends' = x_sends
                   /\ x_result' # "success")]_vars

(***************************************************************************)
(* Redundant release                                                       *)
(***************************************************************************)

\* how often c is in the queue q
Occurrences(q, c) == Cardinality({i \in 1..Len(q) : q[i] = c})

\* C39: a connection is at most once in the idle queue of a key, also when
\* return_connection is called on a connection that was returned before or
\* was never checked out by the caller, so that two later get_connection calls
\* cannot pop the same connection
C39_QueuedAtMostOnce ==
    \A p \in DOMAIN available : \A c \in DOMAIN sess :
        Occurrences(available[p], c) <= 1

(***************************************************************************)
(* What Execute returns                                                    *)
(***************************************************************************)

\* C40: the text that a successful Execute returns holds no output of an
\* earlier command or of an earlier attempt that timed out, no echoed command
\* line and no line with the prompt
C40_OnlyOwnOutput ==
    x_result = "success" => x_lines \cap {"stale", "echo", "prompt"} = {}

====
